---- MODULE Spec2Model ----
(***************************************************************************)
(* Model of the template-filling engine of wordToPdf                       *)
(* (app/utils/word_processor.py, class WordProcessor).                     *)
(*                                                                         *)
(* Text is a sequence of one-character strings.  A run is a record         *)
(* [text, fmt, highlight]; a paragraph is its sequence of runs and its     *)
(* rendered text is the concatenation of the runs' text.  Positions in     *)
(* text and run indices are 0-based, as in the Python source.              *)
(***************************************************************************)
EXTENDS Integers, Sequences, FiniteSets, TLC

(***************************************************************************)
(* Characters and Python string primitives                                 *)
(***************************************************************************)
NBSP == "nbsp"     \* U+00A0, one character
WJ   == "wj"       \* U+2060, one character
None == "None"     \* Python None as an attribute value

UpperLetters == <<"A","B","C","D","E","F","G","H","I","J","K","L","M",
                  "N","O","P","Q","R","S","T","U","V","W","X","Y","Z">>
LowerLetters == <<"a","b","c","d","e","f","g","h","i","j","k","l","m",
                  "n","o","p","q","r","s","t","u","v","w","x","y","z">>

\* str.isspace() for one character
IsSpace(c) == c \in {" ", "\t", NBSP}

\* str.lower() for one character
LowerChar(c) ==
  IF \E i \in 1..26 : UpperLetters[i] = c
    THEN LowerLetters[CHOOSE i \in 1..26 : UpperLetters[i] = c]
    ELSE c

\* str.lower()
Lower(s) == [i \in 1..Len(s) |-> LowerChar(s[i])]

\* s[a:b] for 0 <= a, b
Slice(s, a, b) == SubSeq(s, a + 1, IF b > Len(s) THEN Len(s) ELSE b)

\* s[a:]
SliceFrom(s, a) == SubSeq(s, a + 1, Len(s))

\* sub occurs in s at 0-based position p
OccursAt(sub, s, p) ==
  /\ p >= 0
  /\ p + Len(sub) <= Len(s)
  /\ \A k \in 1..Len(sub) : s[p + k] = sub[k]

\* the positions at which sub occurs in s
Occurrences(sub, s) == {p \in 0..Len(s) : OccursAt(sub, s, p)}

SetMin(S) == CHOOSE x \in S : \A y \in S : x <= y
SetMax(S) == CHOOSE x \in S : \A y \in S : x >= y

\* sub in s
Contains(sub, s) == Occurrences(sub, s) # {}

\* s.find(sub): first position, or -1
Find(sub, s) == IF Contains(sub, s) THEN SetMin(Occurrences(sub, s)) ELSE -1

\* s.replace(sub, rep): every non-overlapping occurrence, left to right
RECURSIVE StrReplace(_, _, _)
StrReplace(s, sub, rep) ==
  IF Len(sub) = 0 \/ ~Contains(sub, s) THEN s
  ELSE LET p == Find(sub, s)
       IN Slice(s, 0, p) \o rep \o StrReplace(SliceFrom(s, p + Len(sub)), sub, rep)

\* s.strip()
RECURSIVE LStrip(_)
LStrip(s) == IF Len(s) > 0 /\ IsSpace(s[1]) THEN LStrip(Tail(s)) ELSE s
RECURSIVE RStrip(_)
RStrip(s) ==
  IF Len(s) > 0 /\ IsSpace(s[Len(s)]) THEN RStrip(SubSeq(s, 1, Len(s) - 1)) ELSE s
Strip(s) == RStrip(LStrip(s))

\* s.split(): the words of s, separated by whitespace runs
RECURSIVE SplitWords(_, _)
SplitWords(s, word) ==
  IF Len(s) = 0 THEN (IF Len(word) = 0 THEN <<>> ELSE <<word>>)
  ELSE IF IsSpace(s[1])
    THEN (IF Len(word) = 0 THEN <<>> ELSE <<word>>) \o SplitWords(Tail(s), <<>>)
    ELSE SplitWords(Tail(s), Append(word, s[1]))

\* ' '.join(words)
RECURSIVE JoinSpace(_)
JoinSpace(words) ==
  IF Len(words) = 0 THEN <<>>
  ELSE IF Len(words) = 1 THEN words[1]
  ELSE words[1] \o <<" ">> \o JoinSpace(Tail(words))

(***************************************************************************)
(* Values of a data record: None, a str, or another object with its str()  *)
(***************************************************************************)
NoneValue == [kind |-> "none", s |-> <<"N","o","n","e">>]
StrValue(s) == [kind |-> "str", s |-> s]
ObjValue(s) == [kind |-> "obj", s |-> s]    \* non-str object, s is str(object)

\* str(value)
Str(value) == value.s

Sentinels == {<<"n","a","n">>, <<"n","o","n","e">>, <<>>}

(***************************************************************************)
(* Runs and paragraphs                                                     *)
(***************************************************************************)
NoIdx == -1        \* Python None as a run index

Run(text, fmt, highlight) == [text |-> text, fmt |-> fmt, highlight |-> highlight]

\* a run's bold / italic / font size, each None when unset
NoFmt == [bold |-> None, italic |-> None, font_size |-> None]

\* paragraph.text: the concatenation of the runs' text
RECURSIVE ParagraphText(_)
ParagraphText(runs) ==
  IF Len(runs) = 0 THEN <<>> ELSE runs[1].text \o ParagraphText(Tail(runs))

\* the token '{placeholder}'
PlaceholderText(placeholder) == <<"{">> \o placeholder \o <<"}">>

\* run.text = text
SetText(run, text) == [run EXCEPT !.text = text]

\* a removal that drops the whole property block of the run
RemoveHighlightingDropsProperties(run) == [run EXCEPT !.highlight = None, !.fmt = NoFmt]

\* a highlight attribute that python-docx cannot read: the getter of
\* font.highlight_color raises for it
Unreadable == "Unreadable"

\* _remove_highlighting(run): the body is one try/except, and its first
\* statement reads font.highlight_color, so a run whose highlight cannot be
\* read is left as it is
RemoveHighlighting(run) ==
  IF run.highlight = Unreadable THEN run ELSE [run EXCEPT !.highlight = None]

\* _remove_highlighting_from_all_runs(paragraph, start_idx, end_idx)
RemoveHighlightingFromAllRuns(runs, start_idx, end_idx) ==
  [j \in 1..Len(runs) |->
     IF start_idx <= j - 1 /\ j - 1 < end_idx + 1 THEN RemoveHighlighting(runs[j])
     ELSE runs[j]]

\* _remove_all_highlighting_from_paragraph(paragraph)
RemoveAllHighlightingFromParagraph(runs) ==
  [j \in 1..Len(runs) |-> RemoveHighlighting(runs[j])]

\* paragraph._element.remove(paragraph.runs[i]._element)
RemoveRunAt(runs, i) == SubSeq(runs, 1, i) \o SubSeq(runs, i + 2, Len(runs))

\* paragraph.add_run(text)
AddRun(runs, text) == Append(runs, Run(text, NoFmt, None))

(***************************************************************************)
(* The value transform of _replace_placeholder_in_paragraph                *)
(***************************************************************************)
\* None / sentinel handling and strip
BaseReplacement(value) ==
  IF value.kind = "none" THEN <<>>
  ELSE IF value.kind = "str" /\ Lower(value.s) \in Sentinels THEN <<>>
  ELSE Strip(Str(value))

\* the name test without .lower()
IsEmailFieldCaseSensitive(placeholder, replacement_value) ==
  IF Len(placeholder) > 0 /\ Contains(<<"e","m","a","i","l">>, placeholder)
    THEN TRUE
    ELSE /\ Len(replacement_value) > 0
         /\ Contains(<<"@">>, replacement_value)
         /\ Contains(<<".">>, replacement_value)

IsEmailField(placeholder, replacement_value) ==
  IF Len(placeholder) > 0 /\ Contains(<<"e","m","a","i","l">>, Lower(placeholder))
    THEN TRUE
    ELSE /\ Len(replacement_value) > 0
         /\ Contains(<<"@">>, replacement_value)
         /\ Contains(<<".">>, replacement_value)

EmailGuard(replacement_value) ==
  StrReplace(StrReplace(replacement_value, <<" ">>, <<NBSP>>), <<"@">>, <<"@", WJ>>)

ReplacementValue(placeholder, value) ==
  LET replacement_value == BaseReplacement(value)
  IN IF IsEmailField(placeholder, replacement_value) /\ Len(replacement_value) > 0
       THEN EmailGuard(replacement_value)
       ELSE replacement_value

\* a single-run loop that looks at the first run only
SingleRunIdxFirstOnly(runs, placeholder_text) ==
  IF Len(runs) > 0 /\ Contains(placeholder_text, runs[1].text) THEN 0 ELSE NoIdx

(***************************************************************************)
(* _replace_placeholder_in_paragraph                                       *)
(***************************************************************************)
\* the first run whose text holds the whole token, or NoIdx
SingleRunIdx(runs, placeholder_text) ==
  LET S == {i \in 0..(Len(runs) - 1) : Contains(placeholder_text, runs[i + 1].text)}
  IN IF S = {} THEN NoIdx ELSE SetMin(S)

\* the loop that finds the start run and the end run of the occurrence
RECURSIVE LocateRuns(_, _, _, _, _, _)
LocateRuns(runs, i, current_pos, start_run_idx, placeholder_start, placeholder_end) ==
  IF i >= Len(runs) THEN [start |-> start_run_idx, end |-> NoIdx]
  ELSE LET run_start == current_pos
           run_end == current_pos + Len(runs[i + 1].text)
           s == IF start_run_idx = NoIdx /\ run_start <= placeholder_start
                                         /\ placeholder_start < run_end
                  THEN i ELSE start_run_idx
       IN IF run_start < placeholder_end /\ placeholder_end <= run_end
            THEN [start |-> s, end |-> i]
            ELSE LocateRuns(runs, i + 1, run_end, s, placeholder_start, placeholder_end)

\* the offsets loop with pos not advanced past the start run
RECURSIVE SplitOffsetsStalePos(_, _, _, _, _, _, _, _)
SplitOffsetsStalePos(runs, i, pos, before, start_run_idx, end_run_idx, placeholder_start, placeholder_end) ==
  IF i >= Len(runs) THEN [before |-> before, after |-> <<>>]
  ELSE LET run_text == runs[i + 1].text
       IN IF i = start_run_idx
            THEN SplitOffsetsStalePos(runs, i + 1, pos,
                              Slice(run_text, 0, placeholder_start - pos),
                              start_run_idx, end_run_idx, placeholder_start, placeholder_end)
          ELSE IF i = end_run_idx
            THEN [before |-> before, after |-> SliceFrom(run_text, placeholder_end - pos)]
          ELSE SplitOffsetsStalePos(runs, i + 1, pos + Len(run_text), before,
                            start_run_idx, end_run_idx, placeholder_start, placeholder_end)

\* the loop that computes start_run_text_before and end_run_text_after
RECURSIVE SplitOffsets(_, _, _, _, _, _, _, _)
SplitOffsets(runs, i, pos, before, start_run_idx, end_run_idx, placeholder_start, placeholder_end) ==
  IF i >= Len(runs) THEN [before |-> before, after |-> <<>>]
  ELSE LET run_text == runs[i + 1].text
       IN IF i = start_run_idx
            THEN SplitOffsets(runs, i + 1, pos + Len(run_text),
                              Slice(run_text, 0, placeholder_start - pos),
                              start_run_idx, end_run_idx, placeholder_start, placeholder_end)
          ELSE IF i = end_run_idx
            THEN [before |-> before, after |-> SliceFrom(run_text, placeholder_end - pos)]
          ELSE SplitOffsets(runs, i + 1, pos + Len(run_text), before,
                            start_run_idx, end_run_idx, placeholder_start, placeholder_end)

\* a removal that stops one run short of the start run
RECURSIVE RemoveMiddleRunsButOne(_, _, _)
RemoveMiddleRunsButOne(runs, i, start_run_idx) ==
  IF i <= start_run_idx + 1 THEN runs
  ELSE RemoveMiddleRunsButOne(IF i < Len(runs) THEN RemoveRunAt(runs, i) ELSE runs,
                              i - 1, start_run_idx)

\* remove the runs start_run_idx+1 .. end_run_idx-1, highest index first
RECURSIVE RemoveMiddleRuns(_, _, _)
RemoveMiddleRuns(runs, i, start_run_idx) ==
  IF i <= start_run_idx THEN runs
  ELSE RemoveMiddleRuns(IF i < Len(runs) THEN RemoveRunAt(runs, i) ELSE runs,
                        i - 1, start_run_idx)

\* the fallback for start run = end run
SameRunReplace(runs, start_run_idx, placeholder_text, replacement) ==
  IF start_run_idx < Len(runs)
    THEN [runs |-> [runs EXCEPT ![start_run_idx + 1] =
                      RemoveHighlighting(
                        SetText(@, StrReplace(@.text, placeholder_text, replacement)))],
          ret |-> TRUE, branch |-> "same_run"]
    ELSE [runs |-> runs, ret |-> FALSE, branch |-> "same_run_missing"]

\* the replacement of an occurrence that spans the runs start_run_idx .. end_run_idx
SplitReplace(runs, start_run_idx, end_run_idx, placeholder_start, placeholder_end, replacement) ==
  LET off == SplitOffsets(runs, 0, 0, <<>>, start_run_idx, end_run_idx,
                          placeholder_start, placeholder_end)
      r1 == RemoveHighlightingFromAllRuns(runs, start_run_idx, end_run_idx)
      r2 == IF start_run_idx < Len(r1)
              THEN [r1 EXCEPT ![start_run_idx + 1] =
                      RemoveHighlighting(SetText(@, off.before \o replacement))]
              ELSE r1
      r3 == RemoveMiddleRuns(r2, end_run_idx - 1, start_run_idx)
      removed == IF end_run_idx - start_run_idx - 1 > 0
                   THEN end_run_idx - start_run_idx - 1 ELSE 0
      orig_end_run_formatting ==
        IF end_run_idx < Len(r3) THEN r3[end_run_idx + 1].fmt ELSE NoFmt
      has_formatting == end_run_idx < Len(r3)
      expected_end_idx == end_run_idx - removed
  IN IF has_formatting /\ r3[end_run_idx + 1].highlight = Unreadable
       THEN [runs |-> r3, ret |-> FALSE, branch |-> "raised"]
     ELSE IF end_run_idx > start_run_idx
       THEN IF expected_end_idx < Len(r3) /\ expected_end_idx > start_run_idx
              THEN [runs |-> [r3 EXCEPT ![expected_end_idx + 1] =
                                RemoveHighlighting(SetText(@, off.after))],
                    ret |-> TRUE, branch |-> "split_update"]
            ELSE IF Len(off.after) > 0
              THEN [runs |-> [AddRun(r3, off.after) EXCEPT ![Len(r3) + 1] =
                                RemoveHighlighting(
                                  [@ EXCEPT !.fmt = IF has_formatting
                                                      THEN orig_end_run_formatting
                                                      ELSE NoFmt])],
                    ret |-> TRUE, branch |-> "split_append"]
            ELSE [runs |-> r3, ret |-> TRUE, branch |-> "split_drop"]
       ELSE [runs |-> r3, ret |-> TRUE, branch |-> "split_none"]

\* a replacement that sweeps the highlights before it looks for the token
ReplaceSweepingWhenAbsent(runs, placeholder, value) ==
  LET placeholder_text == PlaceholderText(placeholder)
      full_text == ParagraphText(runs)
  IN IF ~Contains(placeholder_text, full_text)
       THEN [runs |-> RemoveAllHighlightingFromParagraph(runs), ret |-> FALSE,
             branch |-> "absent"]
     ELSE
       LET replacement == ReplacementValue(placeholder, value)
           single == SingleRunIdx(runs, placeholder_text)
       IN IF single # NoIdx
            THEN [runs |-> [runs EXCEPT ![single + 1] =
                             RemoveHighlighting(
                               SetText(RemoveHighlighting(@),
                                       StrReplace(@.text, placeholder_text, replacement)))],
                  ret |-> TRUE, branch |-> "single"]
          ELSE
            LET placeholder_start == Find(placeholder_text, full_text)
                placeholder_end == placeholder_start + Len(placeholder_text)
                loc == LocateRuns(runs, 0, 0, NoIdx, placeholder_start, placeholder_end)
            IN IF placeholder_start = -1
                 THEN [runs |-> runs, ret |-> FALSE, branch |-> "not_found"]
               ELSE IF loc.start = NoIdx \/ loc.end = NoIdx
                 THEN [runs |-> runs, ret |-> FALSE, branch |-> "not_located"]
               ELSE IF loc.start = loc.end
                 THEN SameRunReplace(runs, loc.start, placeholder_text, replacement)
               ELSE SplitReplace(runs, loc.start, loc.end, placeholder_start,
                                 placeholder_end, replacement)

\* _replace_placeholder_in_paragraph(paragraph, placeholder, value)
ReplacePlaceholderInParagraph(runs, placeholder, value) ==
  LET placeholder_text == PlaceholderText(placeholder)
      full_text == ParagraphText(runs)
  IN IF ~Contains(placeholder_text, full_text)
       THEN [runs |-> runs, ret |-> FALSE, branch |-> "absent"]
     ELSE
       LET replacement == ReplacementValue(placeholder, value)
           single == SingleRunIdx(runs, placeholder_text)
       IN IF single # NoIdx
            THEN [runs |-> [runs EXCEPT ![single + 1] =
                             RemoveHighlighting(
                               SetText(RemoveHighlighting(@),
                                       StrReplace(@.text, placeholder_text, replacement)))],
                  ret |-> TRUE, branch |-> "single"]
          ELSE
            LET placeholder_start == Find(placeholder_text, full_text)
                placeholder_end == placeholder_start + Len(placeholder_text)
                loc == LocateRuns(runs, 0, 0, NoIdx, placeholder_start, placeholder_end)
            IN IF placeholder_start = -1
                 THEN [runs |-> runs, ret |-> FALSE, branch |-> "not_found"]
               ELSE IF loc.start = NoIdx \/ loc.end = NoIdx
                 THEN [runs |-> runs, ret |-> FALSE, branch |-> "not_located"]
               ELSE IF loc.start = loc.end
                 THEN SameRunReplace(runs, loc.start, placeholder_text, replacement)
               ELSE SplitReplace(runs, loc.start, loc.end, placeholder_start,
                                 placeholder_end, replacement)

(***************************************************************************)
(* Key matching                                                            *)
(***************************************************************************)
\* _normalize_key(key)
NormalizeKey(key) ==
  IF Len(key) = 0 THEN <<>>
  ELSE JoinSpace(SplitWords(Lower(Strip(key)), <<>>))

AddressPatterns ==
  { <<"a","d","d","r","e","s","s"," ","2">>,
    <<"a","d","d","r","e","s","s","2">>,
    <<"a","d","d","r","e","s","s"," ","l","i","n","e"," ","2">>,
    <<"a","d","d","r","e","s","s","l","i","n","e","2">>,
    <<"a","d","d","r","e","s","s"," ","3">>,
    <<"a","d","d","r","e","s","s","3">>,
    <<"a","d","d","r","e","s","s"," ","l","i","n","e"," ","3">>,
    <<"a","d","d","r","e","s","s","l","i","n","e","3">>,
    <<"a","d","d","r"," ","2">>,
    <<"a","d","d","r","2">>,
    <<"a","d","d","r"," ","3">>,
    <<"a","d","d","r","3">> }

AddressNames ==
  { <<"a","d","d","r","e","s","s"," ","2">>,
    <<"a","d","d","r","e","s","s","2">>,
    <<"a","d","d","r","e","s","s"," ","3">>,
    <<"a","d","d","r","e","s","s","3">>,
    <<"a","d","d","r"," ","2">>,
    <<"a","d","d","r","2">>,
    <<"a","d","d","r"," ","3">>,
    <<"a","d","d","r","3">>,
    <<"a","d","d","r","e","s","s"," ","l","i","n","e"," ","2">>,
    <<"a","d","d","r","e","s","s"," ","l","i","n","e","2">>,
    <<"a","d","d","r","e","s","s","l","i","n","e","2">>,
    <<"a","d","d","r","e","s","s"," ","l","i","n","e"," ","3">>,
    <<"a","d","d","r","e","s","s"," ","l","i","n","e","3">>,
    <<"a","d","d","r","e","s","s","l","i","n","e","3">> }

\* _is_address_2_or_3_placeholder(placeholder)
IsAddress2Or3Placeholder(placeholder) ==
  IF Len(placeholder) = 0 THEN FALSE
  ELSE LET placeholder_lower == Strip(Lower(placeholder))
       IN \/ \E pattern \in AddressPatterns : Contains(pattern, placeholder_lower)
          \/ placeholder_lower \in AddressNames

\* _is_empty_value(value)
IsEmptyValue(value) ==
  IF value.kind = "none" THEN TRUE
  ELSE LET value_str == Strip(Str(value))
       IN value_str = <<>> \/ Lower(value_str) \in Sentinels

\* first position >= from at which character c stands in text, or -1
FindChar(text, c, from) ==
  LET S == {p \in from..(Len(text) - 1) : text[p + 1] = c}
  IN IF S = {} THEN -1 ELSE SetMin(S)

\* re.findall(r'\{([^}]+)\}', text): the names of the tokens, left to right
RECURSIVE FindAll(_, _)
FindAll(text, from) ==
  LET open == FindChar(text, "{", from)
      close == IF open = -1 THEN -1 ELSE FindChar(text, "}", open + 1)
  IN IF open = -1 \/ close = -1 THEN <<>>
     ELSE IF close = open + 1 THEN FindAll(text, open + 1)
     ELSE <<Slice(text, open + 1, close)>> \o FindAll(text, close + 1)

\* normalized_data: one entry [nk, key, value] per normalized key, built in
\* the order of the record
RECURSIVE NormalizedData(_, _, _)
NormalizedData(data, k, acc) ==
  IF k > Len(data) THEN acc
  ELSE LET key == data[k].key
           normalized_key == NormalizeKey(key)
           entry == [nk |-> normalized_key, key |-> key, value |-> data[k].value]
           seen == \E j \in 1..Len(acc) : acc[j].nk = normalized_key
       IN NormalizedData(data, k + 1,
            IF ~seen THEN Append(acc, entry)
            ELSE IF key = normalized_key
              THEN [j \in 1..Len(acc) |->
                      IF acc[j].nk = normalized_key THEN entry ELSE acc[j]]
            ELSE acc)

\* matching that gives a placeholder without a key the first entry of the record
FindPlaceholderMatchesDefaulting(text, data) ==
  LET found_placeholders == FindAll(text, 0)
      normalized_data == NormalizedData(data, 1, <<>>)
      Matched(ph) == \E j \in 1..Len(normalized_data) :
                       normalized_data[j].nk = NormalizeKey(ph)
      EntryOf(ph) == IF Matched(ph)
                       THEN normalized_data[CHOOSE j \in 1..Len(normalized_data) :
                                              normalized_data[j].nk = NormalizeKey(ph)]
                       ELSE normalized_data[1]
      First(i) == \A j \in 1..(i - 1) : found_placeholders[j] # found_placeholders[i]
      keep == SelectSeq([i \in 1..Len(found_placeholders) |-> i], LAMBDA i : First(i))
  IN [m \in 1..Len(keep) |->
        [placeholder |-> found_placeholders[keep[m]],
         key |-> EntryOf(found_placeholders[keep[m]]).key,
         value |-> EntryOf(found_placeholders[keep[m]]).value]]

\* _find_placeholder_matches(text, data): the matches in insertion order, one
\* entry [placeholder, key, value] per distinct placeholder that has a key
FindPlaceholderMatches(text, data) ==
  LET normalized_data == NormalizedData(data, 1, <<>>)
      found_placeholders == FindAll(text, 0)
      Matched(ph) == \E j \in 1..Len(normalized_data) :
                       normalized_data[j].nk = NormalizeKey(ph)
      EntryOf(ph) == normalized_data[CHOOSE j \in 1..Len(normalized_data) :
                                       normalized_data[j].nk = NormalizeKey(ph)]
      First(i) == \A j \in 1..(i - 1) : found_placeholders[j] # found_placeholders[i]
      keep == SelectSeq([i \in 1..Len(found_placeholders) |-> i],
                        LAMBDA i : First(i) /\ Matched(found_placeholders[i]))
  IN [m \in 1..Len(keep) |->
        [placeholder |-> found_placeholders[keep[m]],
         key |-> EntryOf(found_placeholders[keep[m]]).key,
         value |-> EntryOf(found_placeholders[keep[m]]).value]]

(***************************************************************************)
(* fill_placeholders: the work done on one paragraph                       *)
(***************************************************************************)
\* the loop over data.items() that tries every key as an exact placeholder
RECURSIVE ExactPass(_, _, _)
ExactPass(runs, data, k) ==
  IF k > Len(data) THEN runs
  ELSE ExactPass(ReplacePlaceholderInParagraph(runs, data[k].key, data[k].value).runs,
                 data, k + 1)

\* the loop over the normalized matches; to_remove is paragraphs_to_remove, a
\* list to which para_idx is appended once per emptied address placeholder
RECURSIVE NormalizedPass(_, _, _, _, _, _, _)
NormalizedPass(runs, matches, m, current_text, para_idx, to_remove, is_trainee_template) ==
  IF m > Len(matches) THEN [runs |-> runs, to_remove |-> to_remove]
  ELSE IF ~Contains(PlaceholderText(matches[m].placeholder), current_text)
    THEN NormalizedPass(runs, matches, m + 1, current_text, para_idx, to_remove,
                        is_trainee_template)
  ELSE LET is_address_2_or_3 == IsAddress2Or3Placeholder(matches[m].placeholder)
           is_empty == IsEmptyValue(matches[m].value)
           call == ReplacePlaceholderInParagraph(
                     runs, matches[m].placeholder, matches[m].value)
           replaced == call.runs
           updated_text == Strip(ParagraphText(replaced))
           mark == is_trainee_template /\ is_address_2_or_3 /\ is_empty
                     /\ updated_text = <<>>
       IN IF call.branch = "raised"
            THEN [runs |-> replaced, to_remove |-> to_remove]
          ELSE NormalizedPass(replaced, matches, m + 1, ParagraphText(replaced), para_idx,
                              IF mark THEN Append(to_remove, para_idx) ELSE to_remove,
                              is_trainee_template)

\* x in list
InList(x, list) == \E j \in 1..Len(list) : list[j] = x

\* a check that marks every blank paragraph of a trainee template
MarkIfBlankAnyParagraph(norm, original_text, is_trainee_template, para_idx) ==
  IF /\ is_trainee_template
     /\ Strip(ParagraphText(norm.runs)) = <<>>
     /\ ~InList(para_idx, norm.to_remove)
    THEN [runs |-> norm.runs, to_remove |-> Append(norm.to_remove, para_idx)]
    ELSE norm

\* the check made after the two passes: a paragraph of a trainee template
\* that held an address 2/3 placeholder and is now blank is marked
MarkIfBlank(norm, original_text, is_trainee_template, para_idx) ==
  IF /\ is_trainee_template
     /\ \E i \in 1..Len(FindAll(original_text, 0)) :
          IsAddress2Or3Placeholder(FindAll(original_text, 0)[i])
     /\ Strip(ParagraphText(norm.runs)) = <<>>
     /\ ~InList(para_idx, norm.to_remove)
    THEN [runs |-> norm.runs, to_remove |-> Append(norm.to_remove, para_idx)]
    ELSE norm

\* the normalized pass on the paragraph as the exact pass left it
FillAfterExact(exact, current_text, original_text, data, is_trainee_template, para_idx, to_remove) ==
  MarkIfBlank(NormalizedPass(exact, FindPlaceholderMatches(current_text, data), 1,
                             current_text, para_idx, to_remove, is_trainee_template),
              original_text, is_trainee_template, para_idx)

\* the text of the paragraph is read once the exact pass is done
FillFromExact(exact, original_text, data, is_trainee_template, para_idx, to_remove) ==
  FillAfterExact(exact, ParagraphText(exact), original_text, data,
                 is_trainee_template, para_idx, to_remove)

\* the body of the loop over the paragraphs of a container
FillParagraph(runs, data, is_trainee_template, para_idx, to_remove) ==
  FillFromExact(ExactPass(runs, data, 1), ParagraphText(runs), data,
                is_trainee_template, para_idx, to_remove)

\* sorted(set(list), reverse=True), then the removal of each index in turn
RECURSIVE RemoveSorted(_, _)
RemoveSorted(paragraphs, unique_indices) ==
  IF unique_indices = {} THEN paragraphs
  ELSE LET para_idx == SetMax(unique_indices)
       IN RemoveSorted(
            IF para_idx < Len(paragraphs)
              THEN SubSeq(paragraphs, 1, para_idx)
                     \o SubSeq(paragraphs, para_idx + 2, Len(paragraphs))
              ELSE paragraphs,
            unique_indices \ {para_idx})

\* a removal that takes out the first listed paragraph only
RemoveParagraphsFirstOnly(paragraphs, to_remove) ==
  RemoveSorted(paragraphs, {to_remove[j] : j \in 1..(IF Len(to_remove) > 0 THEN 1 ELSE 0)})

\* a removal that goes through the indices in ascending order, each one
\* applied to the list as the removals before it left it
RECURSIVE RemoveAscending(_, _)
RemoveAscending(paragraphs, unique_indices) ==
  IF unique_indices = {} THEN paragraphs
  ELSE LET para_idx == SetMin(unique_indices)
       IN RemoveAscending(
            IF para_idx < Len(paragraphs)
              THEN SubSeq(paragraphs, 1, para_idx)
                     \o SubSeq(paragraphs, para_idx + 2, Len(paragraphs))
              ELSE paragraphs,
            unique_indices \ {para_idx})

RemoveParagraphsAscending(paragraphs, to_remove) ==
  RemoveAscending(paragraphs, {to_remove[j] : j \in 1..Len(to_remove)})

\* the removal of the paragraphs listed in to_remove from a container
RemoveParagraphs(paragraphs, to_remove) ==
  RemoveSorted(paragraphs, {to_remove[j] : j \in 1..Len(to_remove)})

\* the loop over the paragraphs of one cell, then the removal in that cell
RECURSIVE FillCellParagraphs(_, _, _, _, _)
FillCellParagraphs(paragraphs, data, is_trainee_template, para_idx, to_remove) ==
  IF para_idx >= Len(paragraphs) THEN RemoveParagraphs(paragraphs, to_remove)
  ELSE LET r == FillParagraph(paragraphs[para_idx + 1], data, is_trainee_template,
                              para_idx, to_remove)
       IN FillCellParagraphs([paragraphs EXCEPT ![para_idx + 1] = r.runs],
                             data, is_trainee_template, para_idx + 1, r.to_remove)

(***************************************************************************)
(* Files and paths                                                         *)
(***************************************************************************)
EmptyDoc == [paragraphs |-> <<>>, cells |-> <<>>]

\* no file at a path; a file holding a document; a file cut short by a
\* failed write
NoFile == [exists |-> FALSE, complete |-> FALSE, doc |-> EmptyDoc]
DocFile(d) == [exists |-> TRUE, complete |-> TRUE, doc |-> d]
PartialFile == [exists |-> TRUE, complete |-> FALSE, doc |-> EmptyDoc]

\* os.path.basename(path)
Basename(path) ==
  LET S == {p \in 0..(Len(path) - 1) : path[p + 1] = "/"}
  IN IF S = {} THEN path ELSE SliceFrom(path, SetMax(S) + 1)

\* 'trainee' in os.path.basename(template_path).lower()
IsTraineeTemplate(template_path) ==
  Contains(<<"t","r","a","i","n","e","e">>, Lower(Basename(template_path)))

(***************************************************************************)
(* Bounds and inputs                                                       *)
(***************************************************************************)
MaxRuns == 4       \* most runs a generated paragraph is cut into

X == <<"X">>
Email == <<"E","m","a","i","l">>

\* rendered texts of the generated paragraphs
Texts ==
  { <<"a","{","X","}","b">>,
    <<"{","X","}">>,
    <<"{","X","}","{","X","}">>,
    <<"{","E","m","a","i","l","}">> }

Names == {X, Email}

Values ==
  { NoneValue,
    StrValue(<<>>),
    StrValue(<<"n","a","n">>),
    StrValue(<<"N","o","n","e">>),
    StrValue(<<" ">>),
    ObjValue(<<"n","a","n">>),
    ObjValue(<<"7">>),
    StrValue(<<"v">>),
    StrValue(<<" ","a"," ","b"," ">>),
    StrValue(<<"a"," ","b","@","c",".","d">>),
    StrValue(<<"a","@","b">>),
    StrValue(<<"{","X","}">>) }

FmtProfiles ==
  << [bold |-> "True",  italic |-> None,    font_size |-> "Pt12"],
     [bold |-> None,    italic |-> "True",  font_size |-> None],
     [bold |-> "False", italic |-> "False", font_size |-> "Pt10"] >>

Styles == 0..1
HighlightPatterns == {"none", "all", "odd"}

Highlighted(pattern, i) ==
  IF pattern = "all" \/ (pattern = "odd" /\ i % 2 = 1) THEN "YELLOW" ELSE None

RECURSIVE SumTo(_, _)
SumTo(f, m) == IF m = 0 THEN 0 ELSE f[m] + SumTo(f, m - 1)

\* the ways to cut a text of n characters into 1..MaxRuns runs (empty runs included)
RunLengths(n) ==
  UNION { {f \in [1..m -> 0..n] : SumTo(f, m) = n} : m \in 1..MaxRuns }

\* the runs of a text cut as lens says, with formatting and highlight by position
MakeParagraph(text, lens, style, pattern) ==
  [i \in 1..Len(lens) |->
     Run(SubSeq(text, SumTo(lens, i - 1) + 1, SumTo(lens, i)),
         FmtProfiles[((i + style) % 3) + 1],
         Highlighted(pattern, i))]

ParagraphInputs ==
  UNION { { MakeParagraph(t, lens, st, hp) :
              lens \in RunLengths(Len(t)), st \in Styles, hp \in HighlightPatterns } :
          t \in Texts }

(***************************************************************************)
(* Inputs of fill_placeholders                                             *)
(***************************************************************************)
MaxParas == 3      \* most free-standing paragraphs of a generated template

\* a paragraph given by the texts of its runs
Para(texts, style, pattern) ==
  [i \in 1..Len(texts) |->
     Run(texts[i], FmtProfiles[((i + style) % 3) + 1], Highlighted(pattern, i))]

ParaSingle == Para(<< <<"a","{","X","}","b">> >>, 0, "none")
ParaSplit == Para(<< <<"{","X">>, <<"}">> >>, 0, "all")
ParaTriple == Para(<< <<"{","X">>, <<"}","{","X">>, <<"}","{","X">>, <<"}">> >>, 1, "none")
ParaPlain == Para(<< <<"H","i">> >>, 0, "all")
ParaCase == Para(<< <<"{","A">>, <<"B","}"," ">>, <<"{","A","b","}">> >>, 0, "odd")
ParaUnmatched == Para(<< <<"{","X">>, <<"}","{","Y">>, <<"}">> >>, 1, "all")
ParaAddress == Para(<< <<"{","A","d","d","r","e","s","s"," ","2","}">> >>, 0, "none")
ParaTwice == Para(<< <<"{">>, <<"x","}">>, <<"{">>, <<"x","}">> >>, 0, "none")
ParaDate == Para(<< <<"{","D","a","t","e"," ","o","f"," ","J","o","i","n","i","n","g","}">>, <<"{","D","A","T","E"," ","O","F"," ">>, <<"J","O","I","N","I","N","G","}">>, <<"{","D","a","t","e"," "," "," ","o","f"," ","J","o","i","n","i","n","g","}">> >>, 0, "odd")

ParaAddr3 == Para(<< <<" ","{","A","d","d","r">>, <<"3","}"," ">> >>, 1, "none")

\* the paragraphs templates are made of, in the order they may follow one another
ParagraphPool ==
  << ParaSingle, ParaAddress, ParaSplit, ParaAddress, ParaTriple, ParaPlain,
     ParaCase, ParaUnmatched, ParaTwice, ParaDate, ParaAddress, ParaAddr3, ParaSplit >>

\* the free-standing paragraphs of a template: up to MaxParas paragraphs that
\* follow one another in the pool
Bodies ==
  UNION { { SubSeq(ParagraphPool, i, i + n - 1) : i \in 1..(Len(ParagraphPool) - n + 1) } :
          n \in 1..MaxParas }

\* the cells of the tables of a template, in document order
CellSets ==
  { <<>>,
    << <<ParaSplit, ParaAddress, ParaAddr3>> >>,
    << <<ParaAddress, ParaPlain, ParaAddress>>, <<ParaUnmatched>> >> }

Templates == { [paragraphs |-> b, cells |-> c] : b \in Bodies, c \in CellSets }

Entry(key, v) == [key |-> key, value |-> v]

\* data records: the entries in the order of the dict
Records ==
  { << Entry(<<"X">>, StrValue(<<"v">>)) >>,
    << Entry(<<"x">>, StrValue(<<"w">>)) >>,
    << Entry(<<"A","b">>, StrValue(<<"1">>)), Entry(<<"a","b">>, StrValue(<<"2">>)) >>,
    << Entry(<<"a","b">>, StrValue(<<"2">>)), Entry(<<"A","b">>, StrValue(<<"1">>)) >>,
    << Entry(<<"d","a","t","e"," ","o","f"," ","j","o","i","n","i","n","g">>, StrValue(<<"d">>)), Entry(<<"X">>, StrValue(<<"v">>)) >>,
    << Entry(<<"A","d","d","r","e","s","s"," ","2">>, StrValue(<<>>)), Entry(<<"X">>, StrValue(<<"v">>)) >>,
    << Entry(<<"a","d","d","r","e","s","s"," ","2">>, NoneValue), Entry(<<"X">>, ObjValue(<<"7">>)) >>,
    << Entry(<<"A","d","d","r","e","s","s"," ","2">>, StrValue(<<"S">>)), Entry(<<"x">>, StrValue(<<"w">>)) >>,
    << Entry(<<"X">>, StrValue(<<>>)), Entry(<<"a","d","d","r","3">>, StrValue(<<"n","a","n">>)) >>,
    << Entry(<<"X">>, StrValue(<<"{","Y","}">>)), Entry(<<"Y">>, StrValue(<<"w">>)) >>,
    << Entry(<<"Y">>, StrValue(<<"w">>)), Entry(<<"X">>, StrValue(<<"{","Y","}">>)) >> }

TemplatePaths == { <<"t","r","a","i","n","e","e","/","a",".","d","o","c","x">>, <<"t","/","T","r","a","i","n","e","e",".","d","o","c","x">> }
OutputPath == <<"o","u","t",".","d","o","c","x">>
Paths == TemplatePaths \cup {OutputPath}

\* a document left at the output path by an earlier fill
OldOutput == DocFile([paragraphs |-> <<ParaPlain>>, cells |-> <<>>])

(***************************************************************************)
(* State                                                                   *)
(***************************************************************************)
VARIABLES
  pc,            \* position of the caller
  paragraph,     \* the runs of the paragraph passed to the replacement
  placeholder,   \* the placeholder name passed
  value,         \* the value passed
  ret,           \* the value returned
  branch,        \* the return statement reached
  files,         \* the file at every path
  template_path, \* fill_placeholders: argument
  output_path,   \* fill_placeholders: argument
  data,          \* fill_placeholders: argument
  doc,           \* the document tree in memory
  para_idx,      \* index of the next free-standing paragraph
  cell_idx,      \* index of the next cell
  paragraphs_to_remove,  \* indices of the free-standing paragraphs to remove
  error          \* the exception fill_placeholders raised

replace_vars == <<paragraph, placeholder, value, ret, branch>>
fill_vars == <<files, template_path, output_path, data, doc, para_idx, cell_idx,
               paragraphs_to_remove, error>>

VARIABLES
  rows,          \* worker pool: the data of every row, in the order of the sheet
  word_template, \* worker pool: the template the rows are filled into
  worker,        \* worker pool: position and document tree of every task
  disk,          \* worker pool: the file at every path
  filename,      \* sanitize_filename: argument
  sanitized,     \* sanitize_filename: the value returned
  conversion_progress,   \* ConversionManager.conversion_progress
  stop_conversion_flag,  \* ConversionManager._stop_conversion
  last_call,     \* the method of the manager called last
  result         \* what _convert_file_with_progress returned last

pool_vars == <<rows, word_template, worker, disk>>
sanitize_vars == <<filename, sanitized>>
manager_vars == <<conversion_progress, stop_conversion_flag, last_call, result>>

VARIABLES
  semaphore,        \* upload: the permits left in conversion_semaphore
  acquisition_time, \* upload: the keys of _semaphore_acquisition_time
  progress_lock,    \* upload: the thread that holds conversion_progress_lock
  progress,         \* upload: the conversion_progress dictionary of the routes
  request,          \* upload: position and locals of every /upload request
  poller            \* upload: position of the /progress request

upload_vars == <<semaphore, acquisition_time, progress_lock, progress, request, poller>>
other_vars == <<pool_vars, sanitize_vars, manager_vars, upload_vars>>

vars == <<pc, paragraph, placeholder, value, ret, branch, files, template_path,
          output_path, data, doc, para_idx, cell_idx, paragraphs_to_remove, error,
          pool_vars, sanitize_vars, manager_vars, upload_vars>>

\* the initial state of a ConversionManager
InitialProgress ==
  [status |-> "idle", current |-> 0, total |-> 0, message |-> "", error |-> None,
   start_time |-> None, estimated_time |-> None]

\* the parts of the state a specification does not use
\* MAX_CONCURRENT_CONVERSIONS: the default of the environment variable
MAX_CONCURRENT_CONVERSIONS == 2

\* conversion_progress_lock held by nobody
Unlocked == -1

\* conversion_id None
NoConversion == 0

\* the list that the module puts in conversion_progress['files']
ModuleFiles == 0

\* conversion_progress as the module defines it; its fields current, total,
\* message, percentage, eta_seconds and elapsed_time, which no other field is
\* computed from, are left out.  files_list tells the list objects held in
\* 'files' apart: an entry of the list is a dictionary that stays the same
\* object for as long as the list does
ModuleProgress ==
  [status |-> "idle", error |-> None, start_time |-> None,
   display_total |-> 0, display_current |-> 0, conversion_id |-> NoConversion,
   files_list |-> ModuleFiles, files |-> <<>>]

\* the /progress request before it copies anything
IdlePoller == [pc |-> "idle", list |-> ModuleFiles, n |-> 0]

NoUpload ==
  /\ semaphore = MAX_CONCURRENT_CONVERSIONS
  /\ acquisition_time = {}
  /\ progress_lock = Unlocked
  /\ progress = ModuleProgress
  /\ request = <<>>
  /\ poller = IdlePoller
NoPool == rows = <<>> /\ word_template = <<>> /\ worker = <<>> /\ disk = <<>>
NoSanitize == filename = <<>> /\ sanitized = <<>>
NoManager ==
  /\ conversion_progress = InitialProgress
  /\ stop_conversion_flag = FALSE
  /\ last_call = "__init__"
  /\ result = "none"
NoReplace ==
  /\ paragraph = <<>>
  /\ placeholder = <<>>
  /\ value = NoneValue
  /\ ret = FALSE
  /\ branch = "none"
NoFill ==
  /\ files = [p \in Paths |-> NoFile]
  /\ template_path = OutputPath
  /\ output_path = OutputPath
  /\ data = <<>>
  /\ doc = EmptyDoc
  /\ para_idx = 0
  /\ cell_idx = 0
  /\ paragraphs_to_remove = <<>>
  /\ error = "none"

(***************************************************************************)
(* One call of _replace_placeholder_in_paragraph on any paragraph          *)
(***************************************************************************)
InitReplace ==
  /\ pc = "call"
  /\ paragraph \in ParagraphInputs
  /\ placeholder \in Names
  /\ value \in Values
  /\ ret = FALSE
  /\ branch = "none"
  /\ files = [p \in Paths |-> NoFile]
  /\ template_path = OutputPath
  /\ output_path = OutputPath
  /\ data = <<>>
  /\ doc = EmptyDoc
  /\ para_idx = 0
  /\ cell_idx = 0
  /\ paragraphs_to_remove = <<>>
  /\ error = "none"
  /\ NoPool /\ NoSanitize /\ NoManager /\ NoUpload

CallReplace ==
  /\ pc = "call"
  /\ LET r == ReplacePlaceholderInParagraph(paragraph, placeholder, value)
     IN /\ paragraph' = r.runs
        /\ ret' = r.ret
        /\ branch' = r.branch
  /\ pc' = "returned"
  /\ UNCHANGED <<placeholder, value>>
  /\ UNCHANGED fill_vars
  /\ UNCHANGED other_vars

NextReplace == CallReplace

SpecReplace == InitReplace /\ [][NextReplace]_vars

(***************************************************************************)
(* fill_placeholders(template_path, output_path, data)                     *)
(***************************************************************************)
Init ==
  /\ pc = "start"
  /\ template_path \in TemplatePaths
  /\ output_path \in {OutputPath, template_path}
  /\ data \in Records
  /\ \E f \in {NoFile, PartialFile} \cup {DocFile(t) : t \in Templates},
        g \in {NoFile, OldOutput} :
       files = [p \in Paths |-> IF p = template_path THEN f
                                ELSE IF p = output_path THEN g
                                ELSE NoFile]
  /\ doc = EmptyDoc
  /\ para_idx = 0
  /\ cell_idx = 0
  /\ paragraphs_to_remove = <<>>
  /\ error = "none"
  /\ paragraph = <<>>
  /\ placeholder = <<>>
  /\ value = NoneValue
  /\ ret = FALSE
  /\ branch = "none"
  /\ NoPool /\ NoSanitize /\ NoManager /\ NoUpload

\* a check of the template path that opens the output file before it fails
TemplateNotFoundAfterCreate ==
  /\ pc = "start"
  /\ ~files[template_path].exists
  /\ files' = [files EXCEPT ![output_path] = PartialFile]
  /\ pc' = "failed"
  /\ error' = "Template not found"
  /\ UNCHANGED <<template_path, output_path, data, doc, para_idx, cell_idx,
                 paragraphs_to_remove>>
  /\ UNCHANGED replace_vars
  /\ UNCHANGED other_vars

\* the template path does not exist: FileNotFoundError
TemplateNotFound ==
  /\ pc = "start"
  /\ ~files[template_path].exists
  /\ pc' = "failed"
  /\ error' = "Template not found"
  /\ UNCHANGED <<files, template_path, output_path, data, doc, para_idx, cell_idx,
                 paragraphs_to_remove>>
  /\ UNCHANGED replace_vars
  /\ UNCHANGED other_vars

\* Document(template_path) raises
OpenFails ==
  /\ pc = "start"
  /\ files[template_path].exists
  /\ ~files[template_path].complete
  /\ pc' = "failed"
  /\ error' = "Error opening template"
  /\ UNCHANGED <<files, template_path, output_path, data, doc, para_idx, cell_idx,
                 paragraphs_to_remove>>
  /\ UNCHANGED replace_vars
  /\ UNCHANGED other_vars

\* doc = Document(template_path)
LoadTemplate ==
  /\ pc = "start"
  /\ files[template_path].exists
  /\ files[template_path].complete
  /\ doc' = files[template_path].doc
  /\ para_idx' = 0
  /\ paragraphs_to_remove' = <<>>
  /\ pc' = "body"
  /\ UNCHANGED <<files, template_path, output_path, data, cell_idx, error>>
  /\ UNCHANGED replace_vars
  /\ UNCHANGED other_vars

\* one iteration of the loop over doc.paragraphs
FillBodyParagraph ==
  /\ pc = "body"
  /\ para_idx < Len(doc.paragraphs)
  /\ LET r == FillParagraph(doc.paragraphs[para_idx + 1], data,
                            IsTraineeTemplate(template_path), para_idx,
                            paragraphs_to_remove)
     IN /\ doc' = [doc EXCEPT !.paragraphs[para_idx + 1] = r.runs]
        /\ paragraphs_to_remove' = r.to_remove
  /\ para_idx' = para_idx + 1
  /\ UNCHANGED <<pc, files, template_path, output_path, data, cell_idx, error>>
  /\ UNCHANGED replace_vars
  /\ UNCHANGED other_vars

\* the removal of the marked free-standing paragraphs
PruneBody ==
  /\ pc = "body"
  /\ para_idx >= Len(doc.paragraphs)
  /\ doc' = [doc EXCEPT !.paragraphs = RemoveParagraphs(@, paragraphs_to_remove)]
  /\ cell_idx' = 0
  /\ pc' = "tables"
  /\ UNCHANGED <<files, template_path, output_path, data, para_idx,
                 paragraphs_to_remove, error>>
  /\ UNCHANGED replace_vars
  /\ UNCHANGED other_vars

\* one iteration of the loop over the cells of the tables
FillCell ==
  /\ pc = "tables"
  /\ cell_idx < Len(doc.cells)
  /\ doc' = [doc EXCEPT !.cells[cell_idx + 1] =
               FillCellParagraphs(@, data, IsTraineeTemplate(template_path), 0, <<>>)]
  /\ cell_idx' = cell_idx + 1
  /\ UNCHANGED <<pc, files, template_path, output_path, data, para_idx,
                 paragraphs_to_remove, error>>
  /\ UNCHANGED replace_vars
  /\ UNCHANGED other_vars

\* doc.save(output_path) succeeds
SaveDocument ==
  /\ pc = "tables"
  /\ cell_idx >= Len(doc.cells)
  /\ files' = [files EXCEPT ![output_path] = DocFile(doc)]
  /\ pc' = "done"
  /\ UNCHANGED <<template_path, output_path, data, doc, para_idx, cell_idx,
                 paragraphs_to_remove, error>>
  /\ UNCHANGED replace_vars
  /\ UNCHANGED other_vars

\* doc.save(output_path) raises: the destination cannot be opened, or the
\* write breaks off after the file was opened
SaveFails ==
  /\ pc = "tables"
  /\ cell_idx >= Len(doc.cells)
  /\ \/ files' = files
     \/ files' = [files EXCEPT ![output_path] = PartialFile]
  /\ pc' = "failed"
  /\ error' = "Error filling placeholders"
  /\ UNCHANGED <<template_path, output_path, data, doc, para_idx, cell_idx,
                 paragraphs_to_remove>>
  /\ UNCHANGED replace_vars
  /\ UNCHANGED other_vars

Next ==
  \/ TemplateNotFound
  \/ OpenFails
  \/ LoadTemplate
  \/ FillBodyParagraph
  \/ PruneBody
  \/ FillCell
  \/ SaveDocument
  \/ SaveFails

Spec == Init /\ [][Next]_vars

(***************************************************************************)
(* Properties of _replace_placeholder_in_paragraph (SpecReplace)           *)
(***************************************************************************)
\* a step in which the call is made and returns
ReplaceStep == pc = "call" /\ pc' = "returned"

\* text[:p] + v + text[p+n:]
Splice(text, p, n, v) == Slice(text, 0, p) \o v \o SliceFrom(text, p + n)

\* 0-based position at which run i starts in the rendered text
RECURSIVE RunStart(_, _)
RunStart(runs, i) == IF i = 0 THEN 0 ELSE RunStart(runs, i - 1) + Len(runs[i].text)

\* the run that holds the character at position p of the rendered text
RunOfPos(runs, p) ==
  CHOOSE i \in 0..(Len(runs) - 1) :
    RunStart(runs, i) <= p /\ p < RunStart(runs, i) + Len(runs[i + 1].text)

\* the text that took the place of the token at [s, e), read off the texts
\* before and after the call
Inserted(before, after, s, e) == Slice(after, s, Len(after) - (Len(before) - e))

\* C1: when the call returns True, the rendered text afterwards is
\* textBefore[:s] + v + textBefore[e:], [s, e) being the first occurrence of
\* the token in the rendered text and v the transformed value: exactly one
\* occurrence is replaced, on the single-run path and on the split-run path.
C1_FirstOccurrenceReplaced ==
  [][ReplaceStep /\ ret' = TRUE =>
       LET before == ParagraphText(paragraph)
           tok == PlaceholderText(placeholder)
       IN ParagraphText(paragraph') =
            Splice(before, Find(tok, before), Len(tok),
                   ReplacementValue(placeholder, value))]_vars

\* C4: for a paragraph whose rendered text holds one occurrence of the token,
\* the rendered text after the replacement is the text the one-run paragraph
\* with the same rendered text gets, however the text is cut into runs.
C4_PartitionIndependent ==
  [][ReplaceStep /\ Cardinality(Occurrences(PlaceholderText(placeholder),
                                            ParagraphText(paragraph))) = 1 =>
       /\ ret' = TRUE
       /\ ParagraphText(paragraph') =
            ParagraphText(ReplacePlaceholderInParagraph(
                            <<Run(ParagraphText(paragraph), NoFmt, None)>>,
                            placeholder, value).runs)]_vars

C4_Witness ==
  /\ pc = "returned" /\ ret = TRUE /\ branch = "split_update"
  /\ placeholder = X /\ value = StrValue(<<"v">>)
  /\ ParagraphText(paragraph) = <<"a","v","b">>
  /\ Len(paragraph) >= 3
  /\ \E i \in 1..Len(paragraph) : paragraph[i].text = <<>>

\* C5: a replacement leaves bold, italic and font size of all text outside
\* the replaced span alone: for some occurrence of the token, with s the run
\* of its first character and e the run of its last, the runs before s and
\* after e keep text and formatting, run s keeps its formatting, and when
\* e > s the text that followed the token in run e is carried by a run with
\* the formatting run e had.
C5_FormattingFrame ==
  [][ReplaceStep /\ ret' = TRUE =>
       LET R == paragraph
           Q == paragraph'
           before == ParagraphText(R)
           tok == PlaceholderText(placeholder)
       IN \E p \in Occurrences(tok, before) :
            LET s == RunOfPos(R, p)
                e == RunOfPos(R, p + Len(tok) - 1)
                removed == IF e > s THEN e - s - 1 ELSE 0
            IN /\ Len(Q) = Len(R) - removed
               /\ \A j \in 0..(s - 1) : Q[j + 1].text = R[j + 1].text
                                        /\ Q[j + 1].fmt = R[j + 1].fmt
               /\ Q[s + 1].fmt = R[s + 1].fmt
               /\ \A j \in (e + 1)..(Len(R) - 1) :
                    /\ Q[j + 1 - removed].text = R[j + 1].text
                    /\ Q[j + 1 - removed].fmt = R[j + 1].fmt
               /\ e > s =>
                    /\ Q[s + 2].fmt = R[e + 1].fmt
                    /\ Q[s + 2].text =
                         SliceFrom(R[e + 1].text, p + Len(tok) - RunStart(R, e))]_vars

C5_Witness ==
  /\ pc = "returned" /\ ret = TRUE /\ branch = "split_update"
  /\ \E i \in 1..(Len(paragraph) - 1) :
       /\ paragraph[i].text = <<"a","v">>
       /\ paragraph[i + 1].text = <<"b">>
       /\ paragraph[i].fmt # paragraph[i + 1].fmt
       /\ paragraph[i + 1].fmt # NoFmt

\* a value that is absent, or whose string form is 'nan' or 'none' in any
\* case, or is empty or whitespace-only
IsNullValue(v) ==
  \/ v.kind = "none"
  \/ Lower(Str(v)) \in {<<"n","a","n">>, <<"n","o","n","e">>}
  \/ Strip(Str(v)) = <<>>

\* C9: for a value that is absent, or whose string form is 'nan' or 'none'
\* in any case, or is empty or whitespace-only, whatever its type, the text
\* put in place of the placeholder is the empty string: the paragraph ends up
\* as it does for the value ''.
C9_NullValueRendersEmpty ==
  [][ReplaceStep /\ ret' = TRUE /\ IsNullValue(value) =>
       ParagraphText(paragraph') =
         ParagraphText(ReplacePlaceholderInParagraph(
                         paragraph, placeholder, StrValue(<<>>)).runs)]_vars

\* the name contains 'email' in any case, or the value holds '@' and '.'
EmailCase(name, v) ==
  \/ Contains(<<"e","m","a","i","l">>, Lower(name))
  \/ v.kind # "none" /\ Contains(<<"@">>, Str(v)) /\ Contains(<<".">>, Str(v))

\* no plain space, and every '@' is followed at once by U+2060
EmailSafe(ins) ==
  /\ ~Contains(<<" ">>, ins)
  /\ \A k \in 1..Len(ins) : ins[k] = "@" => (k < Len(ins) /\ ins[k + 1] = WJ)

\* the value is None or a str equal to 'nan', 'none' or '' in any case
IsSentinel(v) == v.kind = "none" \/ (v.kind = "str" /\ Lower(v.s) \in Sentinels)

\* the text inserted is ins on both paths: it is the transformed value, and
\* where the token occurs once it is what stands at the token's place
InsertedIs(P(_)) ==
  LET before == ParagraphText(paragraph)
      tok == PlaceholderText(placeholder)
      s == Find(tok, before)
      ins == ReplacementValue(placeholder, value)
  IN /\ P(ins)
     /\ Cardinality(Occurrences(tok, before)) = 1 =>
          Inserted(before, ParagraphText(paragraph'), s, s + Len(tok)) = ins

\* C10 as stated: in the email case the inserted text has no plain space and
\* every '@' is followed by U+2060; in every other case the inserted text is
\* the value with only leading and trailing whitespace removed; on both paths.
C10_Original ==
  [][ReplaceStep /\ ret' = TRUE =>
       LET P(ins) == IF EmailCase(placeholder, value) THEN EmailSafe(ins)
                     ELSE ins = Strip(Str(value))
       IN InsertedIs(P)]_vars

\* C10 amended: in the email case the inserted text has no plain space and
\* every '@' is followed by U+2060; in every other case the inserted text is
\* empty when the value is None or a str equal to 'nan', 'none' or '' in any
\* case, and otherwise the string form of the value with only leading and
\* trailing whitespace removed; on both paths.
C10_EmailGuardOrTrim ==
  [][ReplaceStep /\ ret' = TRUE =>
       LET P(ins) == IF EmailCase(placeholder, value) THEN EmailSafe(ins)
                     ELSE IF IsSentinel(value) THEN ins = <<>>
                     ELSE ins = Strip(Str(value))
       IN InsertedIs(P)]_vars

C10_Witness ==
  /\ pc = "returned" /\ ret = TRUE /\ branch = "split_update"
  /\ placeholder = Email
  /\ value = StrValue(<<"a"," ","b","@","c",".","d">>)
  /\ ParagraphText(paragraph) = <<"a", NBSP, "b", "@", WJ, "c", ".", "d">>

(***************************************************************************)
(* Properties of fill_placeholders (Spec)                                  *)
(***************************************************************************)
\* the step that writes the output file
SaveStep == pc = "tables" /\ pc' = "done"

\* a step that fills one free-standing paragraph
BodyStep == pc = "body" /\ pc' = "body"

\* every paragraph of a document: the free-standing ones, then those of the cells
RECURSIVE CellParagraphs(_)
CellParagraphs(cells) ==
  IF Len(cells) = 0 THEN <<>> ELSE cells[1] \o CellParagraphs(Tail(cells))
AllParagraphs(d) == d.paragraphs \o CellParagraphs(d.cells)

\* the entries of the record whose key normalizes as the name does
EntriesFor(name, record) ==
  {k \in 1..Len(record) : NormalizeKey(record[k].key) = NormalizeKey(name)}

\* every placeholder of the document has a key in the record
AllResolvable(d, record) ==
  \A i \in 1..Len(AllParagraphs(d)) :
    LET names == FindAll(ParagraphText(AllParagraphs(d)[i]), 0)
    IN \A j \in 1..Len(names) : EntriesFor(names[j], record) # {}

\* two keys of the record normalize alike
HasCollision(record) ==
  \E a, b \in 1..Len(record) :
    a # b /\ NormalizeKey(record[a].key) = NormalizeKey(record[b].key)

\* the entry the contract resolves a name to: the key equal to the name
\* character for character if there is one, else the first key in the order
\* of the record that normalizes as the name does
ResolvedEntry(name, record) ==
  IF \E k \in 1..Len(record) : record[k].key = name
    THEN CHOOSE k \in 1..Len(record) : record[k].key = name
    ELSE SetMin(EntriesFor(name, record))

\* the text in which every token that has a key stands replaced by the
\* transformed value of the entry it resolves to, the other tokens left alone
RECURSIVE ExpectedFill(_, _, _)
ExpectedFill(text, from, record) ==
  LET open == FindChar(text, "{", from)
      close == IF open = -1 THEN -1 ELSE FindChar(text, "}", open + 1)
  IN IF open = -1 \/ close = -1 THEN SliceFrom(text, from)
     ELSE IF close = open + 1
       THEN Slice(text, from, open + 1) \o ExpectedFill(text, open + 1, record)
     ELSE LET name == Slice(text, open + 1, close)
          IN Slice(text, from, open)
               \o (IF EntriesFor(name, record) = {} THEN Slice(text, open, close + 1)
                   ELSE ReplacementValue(
                          name, record[ResolvedEntry(name, record)].value))
               \o ExpectedFill(text, close + 1, record)

\* C2: when every placeholder of the template has a resolvable key, no
\* paragraph of the output, free-standing or in a cell, still holds the token
\* '{key}' of any key of the record, however often a placeholder occurs in a
\* paragraph and however its occurrences lie in the runs.
C2_NoTokenRemains ==
  [][SaveStep /\ AllResolvable(files[template_path].doc, data) =>
       LET out == AllParagraphs(files'[output_path].doc)
       IN \A i \in 1..Len(out) : \A k \in 1..Len(data) :
            ~Contains(PlaceholderText(data[k].key), ParagraphText(out[i]))]_vars

\* C3: after the fill no run of any paragraph of the output carries a
\* highlight, the runs that held no part of a placeholder included.
C3_NoHighlightInOutput ==
  [][SaveStep =>
       LET out == AllParagraphs(files'[output_path].doc)
       IN \A i \in 1..Len(out) : \A j \in 1..Len(out[i]) :
            out[i][j].highlight = None]_vars

\* C6: a placeholder is resolved by the record key that normalizes as its
\* name does (lowercase, whitespace runs collapsed, ends trimmed): in a record
\* without colliding keys every token of a paragraph that has such a key
\* stands replaced by that key's value after the paragraph is filled.
C6_NormalizedKeyResolves ==
  [][BodyStep /\ ~HasCollision(data) =>
       ParagraphText(doc'.paragraphs[para_idx + 1]) =
         ExpectedFill(ParagraphText(doc.paragraphs[para_idx + 1]), 0, data)]_vars

\* C7: when two keys of the record normalize alike, a placeholder whose name
\* equals one of them character for character is filled with that key's
\* value, and a placeholder that equals neither is filled with the value of
\* the key that comes first in the record.
C7_CollisionExactElseFirst ==
  [][BodyStep /\ HasCollision(data) =>
       ParagraphText(doc'.paragraphs[para_idx + 1]) =
         ExpectedFill(ParagraphText(doc.paragraphs[para_idx + 1]), 0, data)]_vars

\* the names of the tokens of a document that have no key in the record, in
\* document order
RECURSIVE UnmatchedIn(_, _)
UnmatchedIn(paragraphs, record) ==
  IF Len(paragraphs) = 0 THEN <<>>
  ELSE SelectSeq(FindAll(ParagraphText(paragraphs[1]), 0),
                 LAMBDA name : EntriesFor(name, record) = {})
         \o UnmatchedIn(Tail(paragraphs), record)

\* C8: a placeholder whose normalized name matches no normalized key is left
\* untouched: the output holds exactly the unmatched tokens of the template,
\* in the same order, also where other placeholders of the same paragraph
\* were replaced, and the fill does not fail on the way to the save.
C8_UnmatchedUntouched ==
  [][/\ SaveStep =>
          UnmatchedIn(AllParagraphs(files'[output_path].doc), data) =
            UnmatchedIn(AllParagraphs(files[template_path].doc), data)
     /\ pc \in {"body", "tables"} /\ pc' = "failed" =>
          cell_idx >= Len(doc.cells) /\ pc = "tables"]_vars

C8_Witness ==
  /\ pc = "done"
  /\ \E i \in 1..Len(files[output_path].doc.paragraphs) :
       ParagraphText(files[output_path].doc.paragraphs[i]) = <<"v","{","Y","}">>
  /\ \E i \in 1..Len(files[template_path].doc.paragraphs) :
       files[template_path].doc.paragraphs[i] = ParaUnmatched

(***************************************************************************)
(* Pruning of address paragraphs                                           *)
(***************************************************************************)
\* the step that prunes the free-standing paragraphs, and a step that fills
\* and prunes one cell
PruneStep == pc = "body" /\ pc' = "tables"
CellStep == pc = "tables" /\ pc' = "tables"

\* the paragraphs left when those at the 0-based indices in R are taken out
Without(paragraphs, R) ==
  LET keep == SelectSeq([i \in 1..Len(paragraphs) |-> i], LAMBDA i : (i - 1) \notin R)
  IN [m \in 1..Len(keep) |-> paragraphs[keep[m]]]

\* a name of the address line 2 / address line 3 family: case and spacing
\* aside it reads address2, addr2, addressline2 or the same with 3
IsAddressLine(name) ==
  SelectSeq(Lower(name), LAMBDA c : c # " ") \in
    { <<"a","d","d","r","e","s","s","2">>, <<"a","d","d","r","e","s","s","3">>,
      <<"a","d","d","r","2">>, <<"a","d","d","r","3">>,
      <<"a","d","d","r","e","s","s","l","i","n","e","2">>,
      <<"a","d","d","r","e","s","s","l","i","n","e","3">> }

\* the text holds an address line placeholder whose resolved value is empty
HasEmptyAddress(text, record) ==
  \E j \in 1..Len(FindAll(text, 0)) :
    /\ IsAddressLine(FindAll(text, 0)[j])
    /\ EntriesFor(FindAll(text, 0)[j], record) # {}
    /\ IsNullValue(record[ResolvedEntry(FindAll(text, 0)[j], record)].value)

\* the text is exactly one address line placeholder whose resolved value is
\* not empty
IsFilledAddress(text, record) ==
  /\ Len(FindAll(text, 0)) = 1
  /\ text = PlaceholderText(FindAll(text, 0)[1])
  /\ IsAddressLine(FindAll(text, 0)[1])
  /\ EntriesFor(FindAll(text, 0)[1], record) # {}
  /\ ~IsNullValue(record[ResolvedEntry(FindAll(text, 0)[1], record)].value)

\* the value an address line paragraph is to show
AddressValue(text, record) ==
  ReplacementValue(FindAll(text, 0)[1],
                   record[ResolvedEntry(FindAll(text, 0)[1], record)].value)

\* the paragraphs of a cell after substitution, before the cell is pruned
FilledCell(paragraphs, record, is_trainee_template) ==
  [j \in 1..Len(paragraphs) |->
     FillParagraph(paragraphs[j], record, is_trainee_template, j - 1, <<>>).runs]

\* of a container with the paragraphs orig in the template and filled after
\* substitution, out is what is left when a set R of paragraphs is taken out
\* that holds every blank paragraph with an empty address line and no
\* paragraph with a non-empty one, which shows its value
PrunesEmptyAddress(orig, filled, out, record) ==
  \E R \in SUBSET (0..(Len(filled) - 1)) :
    /\ out = Without(filled, R)
    /\ \A i \in 0..(Len(filled) - 1) :
         /\ ( /\ HasEmptyAddress(ParagraphText(orig[i + 1]), record)
              /\ Strip(ParagraphText(filled[i + 1])) = <<>> ) => i \in R
         /\ IsFilledAddress(ParagraphText(orig[i + 1]), record) =>
              /\ i \notin R
              /\ ParagraphText(filled[i + 1]) =
                   AddressValue(ParagraphText(orig[i + 1]), record)

\* C11: on a trainee template a paragraph, free-standing or in a cell, whose
\* original text held an address line 2/3 placeholder with an empty resolved
\* value and whose text is blank after substitution is absent from the
\* output tree; a paragraph that is such a placeholder with a non-empty value
\* is present and shows that value.
C11_EmptyAddressPruned ==
  [][/\ PruneStep /\ IsTraineeTemplate(template_path) =>
          PrunesEmptyAddress(files[template_path].doc.paragraphs, doc.paragraphs,
                             doc'.paragraphs, data)
     /\ CellStep /\ IsTraineeTemplate(template_path) =>
          PrunesEmptyAddress(doc.cells[cell_idx + 1],
                             FilledCell(doc.cells[cell_idx + 1], data, TRUE),
                             doc'.cells[cell_idx + 1], data)]_vars

C11_Witness ==
  /\ pc = "done"
  /\ IsTraineeTemplate(template_path)
  /\ HasEmptyAddress(PlaceholderText(<<"A","d","d","r","e","s","s"," ","2">>), data)
  /\ Len(files[output_path].doc.paragraphs) < Len(files[template_path].doc.paragraphs)
  /\ Len(files[output_path].doc.cells) > 0
  /\ Len(files[output_path].doc.cells[1]) < Len(files[template_path].doc.cells[1])

\* of a container, out is what is left when a set R of paragraphs is taken
\* out, all of them paragraphs of a compact template whose original text held
\* an address line placeholder with an empty resolved value
PrunesOnlyEmptyAddress(compact, orig, filled, out, record) ==
  \E R \in SUBSET (0..(Len(filled) - 1)) :
    /\ out = Without(filled, R)
    /\ \A i \in R : compact /\ HasEmptyAddress(ParagraphText(orig[i + 1]), record)

DistinctTokens(text) ==
  \A i, j \in 1..Len(FindAll(text, 0)) :
    i # j => FindAll(text, 0)[i] # FindAll(text, 0)[j]

\* the value of one entry of the record holds the token of another key
ValueHoldsKey(record) ==
  \E a, b \in 1..Len(record) :
    a # b /\ Contains(PlaceholderText(record[b].key), Str(record[a].value))

\* C13: text inserted as a value is not scanned for placeholders: with a
\* record in which a value holds the token '{K}' of another key K, a filled
\* paragraph reads as its template text with every placeholder replaced by
\* its transformed value, the '{K}' inside the value left as it is, whatever
\* the order of the keys.
C13_ValuesNotRescanned ==
  [][/\ BodyStep
     /\ ValueHoldsKey(data)
     /\ DistinctTokens(ParagraphText(doc.paragraphs[para_idx + 1]))
     => ParagraphText(doc'.paragraphs[para_idx + 1]) =
          ExpectedFill(ParagraphText(doc.paragraphs[para_idx + 1]), 0, data)]_vars

(***************************************************************************)
(* Files: errors and frame                                                 *)
(***************************************************************************)
\* C14: when no file exists at the template path, fill_placeholders fails
\* with the template-not-found error as its first step, before anything is
\* loaded or written: the document in memory and the file at every path, the
\* output path included, are as before the call.
C14_TemplateNotFoundWritesNothing ==
  [][pc = "start" /\ ~files[template_path].exists =>
       /\ pc' = "failed"
       /\ error' = "Template not found"
       /\ files' = files
       /\ doc' = doc]_vars

C14_Witness ==
  /\ pc = "failed"
  /\ error = "Template not found"
  /\ output_path # template_path
  /\ files[output_path] = OldOutput

\* C15: whenever fill_placeholders ends with an error, a failure while the
\* output is written included, the file at the output path is what it was
\* before the call: no partial and no new content.
C15_FailureLeavesOutput ==
  [][pc # "failed" /\ pc' = "failed" => files'[output_path] = files[output_path]]_vars

\* C16: no step of fill_placeholders, of a call that succeeds or of one that
\* fails, changes the file at the template path, whatever the output path.
C16_TemplateFileUnchanged ==
  [][files'[template_path] = files[template_path]]_vars

(***************************************************************************)
(* _replace_placeholder_in_paragraph returning False                       *)
(***************************************************************************)
\* C18: whenever the call returns False it has reached a return statement
\* (no exception) and the paragraph is as before the call: the same runs in
\* number, each with the same text, formatting and highlight.
C18_FalseLeavesParagraph ==
  [][ReplaceStep /\ ret' = FALSE =>
       /\ branch' \in {"absent", "not_found", "not_located", "same_run_missing"}
       /\ paragraph' = paragraph]_vars

C18_Witness ==
  /\ pc = "returned"
  /\ ret = FALSE
  /\ Len(paragraph) > 1
  /\ \E i \in 1..Len(paragraph) : paragraph[i].highlight # None
  /\ Contains(<<"{">>, ParagraphText(paragraph))

(***************************************************************************)
(* FileValidator.sanitize_filename                                         *)
(***************************************************************************)
\* the characters of the class [<>:"/\\|?*]
DangerousChars == {"<", ">", ":", "\"", "/", "\\", "|", "?", "*"}

\* re.sub(r'[<>:"/\\|?*]', '_', filename)
ReplaceDangerous(s) ==
  [i \in 1..Len(s) |-> IF s[i] \in DangerousChars THEN "_" ELSE s[i]]

\* s.strip('. ')
RECURSIVE StripDotsSpaces(_)
StripDotsSpaces(s) ==
  IF Len(s) > 0 /\ s[1] \in {".", " "} THEN StripDotsSpaces(Tail(s))
  ELSE IF Len(s) > 0 /\ s[Len(s)] \in {".", " "}
    THEN StripDotsSpaces(SubSeq(s, 1, Len(s) - 1))
  ELSE s

\* os.path.splitext(p): the extension starts at the last dot, unless only
\* dots stand before it in the last component of the path
SplitExt(p) ==
  LET seps == {i \in 1..Len(p) : p[i] = "/"}
      dots == {i \in 1..Len(p) : p[i] = "."}
      sepIndex == IF seps = {} THEN 0 ELSE SetMax(seps)
      dotIndex == IF dots = {} THEN 0 ELSE SetMax(dots)
  IN IF dotIndex > sepIndex /\ \E i \in (sepIndex + 1)..(dotIndex - 1) : p[i] # "."
       THEN [name |-> SubSeq(p, 1, dotIndex - 1), ext |-> SubSeq(p, dotIndex, Len(p))]
       ELSE [name |-> p, ext |-> <<>>]

\* s[:k], for k of either sign
SliceTo(s, k) ==
  IF k >= 0 THEN SubSeq(s, 1, IF k > Len(s) THEN Len(s) ELSE k)
  ELSE SubSeq(s, 1, Len(s) + k)

\* the longest name that is not shortened
NameLimit == 100

\* FileValidator.sanitize_filename(filename)
SanitizeFilename(name) ==
  LET replaced == ReplaceDangerous(name)
      stripped == StripDotsSpaces(replaced)
      limited == IF Len(stripped) > NameLimit
                   THEN SliceTo(SplitExt(stripped).name,
                                NameLimit - Len(SplitExt(stripped).ext))
                          \o SplitExt(stripped).ext
                   ELSE stripped
  IN IF Len(limited) = 0 THEN <<"f","i","l","e">> ELSE limited

\* most characters of a short generated filename
MaxNameLen == 4

FilenameChars == {"a", ".", "/", "\\", " "}

\* the strings of length n over the filename characters
RECURSIVE StringsOfLen(_)
StringsOfLen(n) ==
  IF n = 0 THEN {<<>>}
  ELSE {Append(t, c) : t \in StringsOfLen(n - 1), c \in FilenameChars}

\* n times the character c
Repeat(c, n) == [i \in 1..n |-> c]

\* names longer than the limit: a long stem, a long extension, a long stem
\* with dots and a separator near the limit
LongFilenames ==
  { Repeat("a", 101) \o <<".","t","x","t">>,
    <<"a",".">> \o Repeat("b", 120),
    Repeat("a", 98) \o <<".",".","/","x",".","a">>,
    Repeat("a", 60) \o <<".">> \o Repeat("b", 45) \o <<".">> }

Filenames == UNION {StringsOfLen(n) : n \in 0..MaxNameLen} \cup LongFilenames

InitSanitize ==
  /\ pc = "call"
  /\ filename \in Filenames
  /\ sanitized = <<>>
  /\ NoReplace /\ NoFill /\ NoPool /\ NoManager /\ NoUpload

CallSanitize ==
  /\ pc = "call"
  /\ sanitized' = SanitizeFilename(filename)
  /\ pc' = "returned"
  /\ UNCHANGED <<filename, replace_vars, fill_vars, pool_vars, manager_vars, upload_vars>>

NextSanitize == CallSanitize

SpecSanitize == InitSanitize /\ [][NextSanitize]_vars

\* C19: for every filename the sanitized name holds no '..', no '/' and no
\* '\', and is not empty.
C19_SanitizedIsSafe ==
  pc = "returned" =>
    /\ ~Contains(<<".",".">>, sanitized)
    /\ ~Contains(<<"/">>, sanitized)
    /\ ~Contains(<<"\\">>, sanitized)
    /\ Len(sanitized) > 0

(***************************************************************************)
(* ConversionManager: progress and stop flag                               *)
(***************************************************************************)
\* largest count passed to update_progress
MaxCount == 2

Messages == {"", "Converting..."}

InitManager ==
  /\ pc = "manager"
  /\ conversion_progress = InitialProgress
  /\ stop_conversion_flag = FALSE
  /\ last_call = "__init__"
  /\ result = "none"
  /\ NoReplace /\ NoFill /\ NoPool /\ NoSanitize /\ NoUpload

\* update_progress(current, total, message)
UpdateProgress ==
  /\ \E current \in 0..MaxCount, total \in 0..MaxCount, message \in Messages :
       conversion_progress' =
         [conversion_progress EXCEPT !.current = current, !.total = total,
                                     !.message = message, !.status = "converting"]
  /\ last_call' = "update_progress"
  /\ UNCHANGED <<pc, stop_conversion_flag, result>>
  /\ UNCHANGED <<replace_vars, fill_vars, pool_vars, sanitize_vars, upload_vars>>

\* a reset that leaves the stop flag as it is
ResetProgressKeepsStop ==
  /\ conversion_progress' = InitialProgress
  /\ last_call' = "reset_progress"
  /\ UNCHANGED <<pc, stop_conversion_flag, result>>
  /\ UNCHANGED <<replace_vars, fill_vars, pool_vars, sanitize_vars, upload_vars>>

\* reset_progress()
ResetProgress ==
  /\ conversion_progress' = InitialProgress
  /\ stop_conversion_flag' = FALSE
  /\ last_call' = "reset_progress"
  /\ UNCHANGED <<pc, result>>
  /\ UNCHANGED <<replace_vars, fill_vars, pool_vars, sanitize_vars, upload_vars>>

\* stop_conversion()
StopConversion ==
  /\ stop_conversion_flag' = TRUE
  /\ conversion_progress' = [conversion_progress EXCEPT !.status = "stopped"]
  /\ last_call' = "stop_conversion"
  /\ UNCHANGED <<pc, result>>
  /\ UNCHANGED <<replace_vars, fill_vars, pool_vars, sanitize_vars, upload_vars>>

\* the route records an error in the progress of the manager
RecordError ==
  /\ conversion_progress' =
       [conversion_progress EXCEPT !.status = "error", !.error = "error"]
  /\ last_call' = "record_error"
  /\ UNCHANGED <<pc, stop_conversion_flag, result>>
  /\ UNCHANGED <<replace_vars, fill_vars, pool_vars, sanitize_vars, upload_vars>>

\* _convert_file_with_progress(file_path, filename, output_dir): refused
\* while the stop flag is set, else handed to convert_single_file
ConvertFileWithProgress ==
  /\ result' = IF stop_conversion_flag THEN "Conversion stopped by user"
               ELSE "convert_single_file"
  /\ last_call' = "_convert_file_with_progress"
  /\ UNCHANGED <<pc, conversion_progress, stop_conversion_flag>>
  /\ UNCHANGED <<replace_vars, fill_vars, pool_vars, sanitize_vars, upload_vars>>

NextManager ==
  \/ UpdateProgress
  \/ ResetProgress
  \/ StopConversion
  \/ RecordError
  \/ ConvertFileWithProgress

SpecManager == InitManager /\ [][NextManager]_vars

\* C20: from every state reached by calls of update_progress and
\* stop_conversion (and errors recorded by the routes), reset_progress leaves
\* the state a new manager has: status 'idle', current 0, total 0, message
\* '', error None, stop flag cleared; a conversion asked for right after the
\* reset is not refused.
C20_ResetRestoresInitial ==
  [][/\ last_call' = "reset_progress" =>
          /\ conversion_progress'.status = "idle"
          /\ conversion_progress'.current = 0
          /\ conversion_progress'.total = 0
          /\ conversion_progress'.message = ""
          /\ conversion_progress'.error = None
          /\ conversion_progress' = InitialProgress
          /\ stop_conversion_flag' = FALSE
     /\ last_call = "reset_progress" /\ last_call' = "_convert_file_with_progress" =>
          result' = "convert_single_file"]_vars

C20_Witness ==
  /\ last_call = "reset_progress"
  /\ result = "Conversion stopped by user"
  /\ conversion_progress = InitialProgress
  /\ ~stop_conversion_flag

(***************************************************************************)
(* The worker pool that fills one document per row of the sheet            *)
(***************************************************************************)
Digits == <<"0","1","2","3","4","5","6","7","8","9">>

\* str(n) of a natural number
RECURSIVE IntStr(_)
IntStr(n) ==
  IF n < 10 THEN <<Digits[n + 1]>>
  ELSE IntStr(n \div 10) \o <<Digits[(n % 10) + 1]>>

\* data.get('Name', 'Candidate'), as an f-string renders it
GetName(row) ==
  IF \E k \in 1..Len(row) : row[k].key = <<"N","a","m","e">>
    THEN Str(row[CHOOSE k \in 1..Len(row) : row[k].key = <<"N","a","m","e">>].value)
    ELSE <<"C","a","n","d","i","d","a","t","e">>

\* a file name made of the name alone
DocxNameWithoutIndex(row, i) == GetName(row) \o <<".","d","o","c","x">>

\* docx_name = f"{data.get('Name', 'Candidate')}_{i+1}.docx"
DocxName(row, i) == GetName(row) \o <<"_">> \o IntStr(i + 1) \o <<".","d","o","c","x">>

\* os.path.join(dir, name)
JoinPath(dir, name) ==
  IF Len(name) > 0 /\ name[1] = "/" THEN name ELSE dir \o <<"/">> \o name

\* the directory made by tempfile.mkdtemp() for the request
TempDir == <<"/","t","m","p","/","r">>

\* ThreadPoolExecutor(max_workers=4)
PoolSize == 4

\* most rows of a generated sheet
MaxRows == 2

Name(v) == Entry(<<"N","a","m","e">>, StrValue(v))

\* the rows of a sheet: two with the same name, one without a name column
PoolRecords ==
  { << Name(<<"A">>), Entry(<<"X">>, StrValue(<<"v">>)) >>,
    << Name(<<"A">>), Entry(<<"X">>, StrValue(<<"w">>)),
       Entry(<<"A","d","d","r","e","s","s"," ","2">>, StrValue(<<>>)) >>,
    << Entry(<<"x">>, StrValue(<<"u">>)) >> }

RECURSIVE RowsOfLen(_)
RowsOfLen(n) ==
  IF n = 0 THEN {<<>>}
  ELSE {Append(t, r) : t \in RowsOfLen(n - 1), r \in PoolRecords}

PoolTemplates ==
  { [paragraphs |-> <<ParaSingle>>, cells |-> <<>>],
    [paragraphs |-> <<ParaSplit, ParaAddress>>, cells |-> << <<ParaTwice, ParaAddress>> >>] }

\* a task of the pool before it runs
QueuedWorker ==
  [pc |-> "queued", docx_path |-> <<>>, doc |-> EmptyDoc, para_idx |-> 0,
   cell_idx |-> 0, paragraphs_to_remove |-> <<>>]

InitPool ==
  /\ pc = "pool"
  /\ rows \in UNION {RowsOfLen(n) : n \in 1..MaxRows}
  /\ word_template \in TemplatePaths
  /\ worker = [w \in 1..Len(rows) |-> QueuedWorker]
  /\ \E t \in PoolTemplates : disk = (word_template :> DocFile(t))
  /\ NoReplace /\ NoFill /\ NoSanitize /\ NoManager /\ NoUpload

\* the tasks that a thread of the pool is running
Running == {w \in DOMAIN worker : worker[w].pc \notin {"queued", "done"}}

\* a thread takes the task of row w: generate_docx builds the output path
\* and a WordProcessor of its own
GenerateDocx(w) ==
  /\ worker[w].pc = "queued"
  /\ Cardinality(Running) < PoolSize
  /\ worker' = [worker EXCEPT ![w] =
       [@ EXCEPT !.pc = "start",
                 !.docx_path = JoinPath(TempDir, DocxName(rows[w], w - 1))]]
  /\ UNCHANGED <<pc, rows, word_template, disk>>
  /\ UNCHANGED <<replace_vars, fill_vars, sanitize_vars, manager_vars, upload_vars>>

\* fill_placeholders of task w: doc = Document(template_path)
WorkerLoad(w) ==
  /\ worker[w].pc = "start"
  /\ disk[word_template].exists /\ disk[word_template].complete
  /\ worker' = [worker EXCEPT ![w] =
       [@ EXCEPT !.pc = "body", !.doc = disk[word_template].doc, !.para_idx = 0,
                 !.paragraphs_to_remove = <<>>]]
  /\ UNCHANGED <<pc, rows, word_template, disk>>
  /\ UNCHANGED <<replace_vars, fill_vars, sanitize_vars, manager_vars, upload_vars>>

\* fill_placeholders of task w: one iteration of the loop over doc.paragraphs
WorkerFillBody(w) ==
  /\ worker[w].pc = "body"
  /\ worker[w].para_idx < Len(worker[w].doc.paragraphs)
  /\ LET r == FillParagraph(worker[w].doc.paragraphs[worker[w].para_idx + 1], rows[w],
                            IsTraineeTemplate(word_template), worker[w].para_idx,
                            worker[w].paragraphs_to_remove)
     IN worker' = [worker EXCEPT ![w] =
          [@ EXCEPT !.doc.paragraphs[worker[w].para_idx + 1] = r.runs,
                    !.paragraphs_to_remove = r.to_remove,
                    !.para_idx = @ + 1]]
  /\ UNCHANGED <<pc, rows, word_template, disk>>
  /\ UNCHANGED <<replace_vars, fill_vars, sanitize_vars, manager_vars, upload_vars>>

\* fill_placeholders of task w: the removal of the marked paragraphs
WorkerPrune(w) ==
  /\ worker[w].pc = "body"
  /\ worker[w].para_idx >= Len(worker[w].doc.paragraphs)
  /\ worker' = [worker EXCEPT ![w] =
       [@ EXCEPT !.doc.paragraphs =
                   RemoveParagraphs(@, worker[w].paragraphs_to_remove),
                 !.cell_idx = 0, !.pc = "tables"]]
  /\ UNCHANGED <<pc, rows, word_template, disk>>
  /\ UNCHANGED <<replace_vars, fill_vars, sanitize_vars, manager_vars, upload_vars>>

\* fill_placeholders of task w: one iteration of the loop over the cells
WorkerFillCell(w) ==
  /\ worker[w].pc = "tables"
  /\ worker[w].cell_idx < Len(worker[w].doc.cells)
  /\ worker' = [worker EXCEPT ![w] =
       [@ EXCEPT !.doc.cells[worker[w].cell_idx + 1] =
                   FillCellParagraphs(@, rows[w], IsTraineeTemplate(word_template),
                                      0, <<>>),
                 !.cell_idx = @ + 1]]
  /\ UNCHANGED <<pc, rows, word_template, disk>>
  /\ UNCHANGED <<replace_vars, fill_vars, sanitize_vars, manager_vars, upload_vars>>

\* doc.save(output_path) of task w opens the output file
WorkerOpenOutput(w) ==
  /\ worker[w].pc = "tables"
  /\ worker[w].cell_idx >= Len(worker[w].doc.cells)
  /\ disk' = (worker[w].docx_path :> PartialFile) @@ disk
  /\ worker' = [worker EXCEPT ![w] = [@ EXCEPT !.pc = "writing"]]
  /\ UNCHANGED <<pc, rows, word_template>>
  /\ UNCHANGED <<replace_vars, fill_vars, sanitize_vars, manager_vars, upload_vars>>

\* doc.save(output_path) of task w writes the document and closes the file
WorkerWriteOutput(w) ==
  /\ worker[w].pc = "writing"
  /\ disk' = (worker[w].docx_path :> DocFile(worker[w].doc)) @@ disk
  /\ worker' = [worker EXCEPT ![w] = [@ EXCEPT !.pc = "done"]]
  /\ UNCHANGED <<pc, rows, word_template>>
  /\ UNCHANGED <<replace_vars, fill_vars, sanitize_vars, manager_vars, upload_vars>>

NextPool ==
  \E w \in DOMAIN worker :
    \/ GenerateDocx(w)
    \/ WorkerLoad(w)
    \/ WorkerFillBody(w)
    \/ WorkerPrune(w)
    \/ WorkerFillCell(w)
    \/ WorkerOpenOutput(w)
    \/ WorkerWriteOutput(w)

SpecPool == InitPool /\ [][NextPool]_vars

\* the document a record alone is filled into: every container filled
\* paragraph by paragraph, then pruned
FillDocument(d, record, is_trainee_template) ==
  [paragraphs |-> FillCellParagraphs(d.paragraphs, record, is_trainee_template, 0, <<>>),
   cells |-> [c \in 1..Len(d.cells) |->
                FillCellParagraphs(d.cells[c], record, is_trainee_template, 0, <<>>)]]

\* C17: the tasks the pool runs side by side write to output paths that
\* differ from one another and from the template, and in every interleaving
\* the file a finished task wrote holds the document its record alone is
\* filled into, whatever the other tasks do before and after.
C17_WorkersIsolated ==
  /\ \A w1, w2 \in DOMAIN worker :
       /\ worker[w1].pc # "queued" => worker[w1].docx_path # word_template
       /\ (w1 # w2 /\ worker[w1].pc # "queued" /\ worker[w2].pc # "queued") =>
            worker[w1].docx_path # worker[w2].docx_path
  /\ \A w \in DOMAIN worker :
       worker[w].pc = "done" =>
         disk[worker[w].docx_path] =
           DocFile(FillDocument(disk[word_template].doc, rows[w],
                                IsTraineeTemplate(word_template)))

C17_Witness ==
  /\ pc = "pool"
  /\ Len(rows) = 2
  /\ GetName(rows[1]) = GetName(rows[2])
  /\ rows[1] # rows[2]
  /\ \A w \in DOMAIN worker : worker[w].pc = "done"
  /\ disk[worker[1].docx_path] # disk[worker[2].docx_path]

(***************************************************************************)
(* The split-run path, run by run                                          *)
(***************************************************************************)
SplitBranches == {"split_update", "split_append", "split_drop", "split_none"}

\* C21: on the split-run path, with s the run of the first character of the
\* first occurrence and e > s the run of its last character, the run list
\* afterwards is shorter by exactly e - s - 1, run s holds its former text
\* before the occurrence followed by the value, the run that was e holds its
\* former text after the occurrence, and the other runs keep order and text.
C21_SplitRunsSpliced ==
  [][ReplaceStep /\ branch' \in SplitBranches =>
       LET R == paragraph
           Q == paragraph'
           tok == PlaceholderText(placeholder)
           p == Find(tok, ParagraphText(R))
           s == RunOfPos(R, p)
           e == RunOfPos(R, p + Len(tok) - 1)
       IN /\ s < e
          /\ Len(Q) = Len(R) - (e - s - 1)
          /\ \A j \in 0..(s - 1) : Q[j + 1].text = R[j + 1].text
          /\ Q[s + 1].text = Slice(R[s + 1].text, 0, p - RunStart(R, s))
                               \o ReplacementValue(placeholder, value)
          /\ Q[s + 2].text = SliceFrom(R[e + 1].text, p + Len(tok) - RunStart(R, e))
          /\ \A j \in (e + 1)..(Len(R) - 1) :
               Q[j + 1 - (e - s - 1)].text = R[j + 1].text]_vars

C21_Witness ==
  /\ pc = "returned" /\ branch = "split_update"
  /\ placeholder = X /\ value = StrValue(<<" ","a"," ","b"," ">>)
  /\ Len(paragraph) = 3
  /\ paragraph[1].text = <<>>
  /\ paragraph[2].text = <<"a","a"," ","b">>
  /\ paragraph[3].text = <<"b">>


(***************************************************************************)
(* Runs whose highlight attribute cannot be read                           *)
(***************************************************************************)
DamagePatterns == {"every", "even"}

\* the paragraph with the highlight of every run, or of every second run,
\* replaced by one that cannot be read
Damage(runs, pattern) ==
  [i \in 1..Len(runs) |->
     [runs[i] EXCEPT !.highlight =
        IF pattern = "every" \/ i % 2 = 0 THEN Unreadable ELSE @]]

\* the same paragraph with readable highlights
Healed(runs) ==
  [i \in 1..Len(runs) |->
     [runs[i] EXCEPT !.highlight = IF @ = Unreadable THEN "YELLOW" ELSE @]]

DamagedParagraphInputs ==
  UNION { { Damage(MakeParagraph(t, lens, 0, "odd"), d) :
              lens \in RunLengths(Len(t)), d \in DamagePatterns } :
          t \in Texts }

DamagedTemplates ==
  { [paragraphs |-> [i \in 1..Len(t.paragraphs) |-> Damage(t.paragraphs[i], d)],
     cells |-> [c \in 1..Len(t.cells) |->
                  [i \in 1..Len(t.cells[c]) |-> Damage(t.cells[c][i], d)]]] :
    t \in Templates, d \in DamagePatterns }

\* one call of _replace_placeholder_in_paragraph on a damaged paragraph
InitReplaceDamaged ==
  /\ pc = "call"
  /\ paragraph \in DamagedParagraphInputs
  /\ placeholder \in Names
  /\ value \in Values
  /\ ret = FALSE
  /\ branch = "none"
  /\ NoFill /\ NoPool /\ NoSanitize /\ NoManager /\ NoUpload

SpecReplaceDamaged == InitReplaceDamaged /\ [][NextReplace]_vars

\* fill_placeholders on a template with damaged paragraphs
InitDamaged ==
  /\ pc = "start"
  /\ template_path \in TemplatePaths
  /\ output_path = OutputPath
  /\ data \in Records
  /\ \E f \in {NoFile, PartialFile} \cup {DocFile(t) : t \in DamagedTemplates} :
       files = [p \in Paths |-> IF p = template_path THEN f ELSE NoFile]
  /\ doc = EmptyDoc
  /\ para_idx = 0
  /\ cell_idx = 0
  /\ paragraphs_to_remove = <<>>
  /\ error = "none"
  /\ NoReplace /\ NoPool /\ NoSanitize /\ NoManager /\ NoUpload

SpecDamaged == InitDamaged /\ [][Next]_vars

\* C22: a highlight or formatting step that fails on a run neither aborts the
\* fill nor changes its text: every free-standing paragraph is filled, and
\* reads after its fill what it reads when every highlight can be read
C22_HighlightFailureKeepsText ==
  [][(pc = "body" /\ para_idx < Len(doc.paragraphs) => BodyStep)
     /\ (BodyStep =>
           ParagraphText(doc'.paragraphs[para_idx + 1])
             = ParagraphText(FillParagraph(Healed(doc.paragraphs[para_idx + 1]), data,
                                           IsTraineeTemplate(template_path), para_idx,
                                           paragraphs_to_remove).runs))]_vars

\* C28: a replacement leaves the text of the paragraph as it was or fully
\* replaced, as the call on the paragraph with readable highlights leaves it
C28_ReplacementAllOrNothing ==
  [][ReplaceStep =>
       \/ ParagraphText(paragraph') = ParagraphText(paragraph)
       \/ ParagraphText(paragraph')
            = ParagraphText(ReplacePlaceholderInParagraph(Healed(paragraph), placeholder,
                                                          value).runs)]_vars


(***************************************************************************)
(* Pruning by index                                                        *)
(***************************************************************************)
\* the 0-based indices of the paragraphs of a container that the fill marks
MarkedIn(orig, record, is_trainee_template) ==
  { i \in 0..(Len(orig) - 1) :
      InList(i, FillParagraph(orig[i + 1], record, is_trainee_template, i, <<>>).to_remove) }

\* C23: pruning removes exactly the marked paragraphs, by the index they had
\* when they were marked: the free-standing paragraphs left, and those left
\* in every cell, are the filled unmarked ones in their original order, also
\* with several marked paragraphs in one container.
C23_PrunedByIndex ==
  [][/\ PruneStep =>
          /\ {paragraphs_to_remove[j] : j \in 1..Len(paragraphs_to_remove)}
               = MarkedIn(files[template_path].doc.paragraphs, data,
                          IsTraineeTemplate(template_path))
          /\ doc'.paragraphs
               = Without(doc.paragraphs,
                         MarkedIn(files[template_path].doc.paragraphs, data,
                                  IsTraineeTemplate(template_path)))
     /\ CellStep =>
          doc'.cells[cell_idx + 1]
            = Without(FilledCell(doc.cells[cell_idx + 1], data,
                                 IsTraineeTemplate(template_path)),
                      MarkedIn(doc.cells[cell_idx + 1], data,
                               IsTraineeTemplate(template_path)))]_vars

C23_Witness ==
  /\ pc = "done"
  /\ output_path # template_path
  /\ files[template_path].doc.paragraphs = <<ParaAddress, ParaSplit, ParaAddress>>
  /\ Len(files[output_path].doc.paragraphs) = 1
  /\ ParagraphText(files[output_path].doc.paragraphs[1]) = <<"v">>
  /\ files[template_path].doc.cells = << <<ParaAddress, ParaPlain, ParaAddress>>, <<ParaUnmatched>> >>
  /\ Len(files[output_path].doc.cells[1]) = 1
  /\ ParagraphText(files[output_path].doc.cells[1][1]) = ParagraphText(ParaPlain)


(***************************************************************************)
(* Stopping a conversion                                                   *)
(***************************************************************************)
\* C29: from stop_conversion until reset_progress the status stays 'stopped'
\* and the stop flag stays set: a later update_progress does not turn the
\* status back to 'converting', and a conversion task started after the stop
\* returns 'Conversion stopped by user' without running the converter.
C29_StopSticks ==
  [][/\ stop_conversion_flag
     /\ last_call' \in {"update_progress", "stop_conversion", "_convert_file_with_progress"}
     => /\ stop_conversion_flag'
        /\ conversion_progress'.status = "stopped"
        /\ last_call' = "_convert_file_with_progress" =>
             result' = "Conversion stopped by user"]_vars


MaxRequests == 3     \* /upload requests in one behaviour
MaxTotalRows == 2    \* most rows of an uploaded sheet, most files of a batch

Requests == 1..MaxRequests

\* the requests are numbered in the order in which they reach the semaphore

\* the thread of the /progress request, as a holder of the lock
Poller == 0

\* display_total not passed to update_progress
NotGiven == NoIdx

Min2(a, b) == IF a < b THEN a ELSE b
Max2(a, b) == IF a > b THEN a ELSE b

ErrorMessage == "An error occurred during conversion. Please try again."

\* the dictionary upload_file puts in place at the start of a conversion
ResetForConversion(new_conversion_id) ==
  [status |-> "converting", error |-> None, start_time |-> None,
   display_total |-> 0, display_current |-> 0, conversion_id |-> new_conversion_id,
   files_list |-> new_conversion_id, files |-> <<>>]

\* the block of upload_file that announces the rows of the sheet
SetExcelProgress(p, new_conversion_id, total_rows) ==
  [p EXCEPT !.display_total = total_rows, !.display_current = 0,
            !.status = "converting", !.conversion_id = new_conversion_id,
            !.start_time = "set",
            !.files_list = MaxRequests + new_conversion_id, !.files = <<>>]

\* set_progress_status(status, error)
SetProgressStatus(p, status, error_message) ==
  [p EXCEPT !.status = status,
            !.error = IF error_message # None THEN error_message ELSE @]

\* the entry of current_file is updated where it is, or appended; file_status
\* is 'processing' in every call that passes a file
UpdateFiles(entries, current_file, current) ==
  IF current_file = None THEN entries
  ELSE IF \E i \in 1..Len(entries) : entries[i].name = current_file
    THEN LET i == CHOOSE j \in 1..Len(entries) :
                    /\ entries[j].name = current_file
                    /\ \A k \in 1..(j - 1) : entries[k].name # current_file
         IN [entries EXCEPT ![i].progress = current]
  ELSE Append(entries, [name |-> current_file, progress |-> current])

\* update_progress(current, total, message, current_file, file_status,
\* display_total=display_total);
\* int((current / total) * display_total_val) is the floor of the quotient
UpdateProgressDict(p, current, total, display_total, current_file) ==
  LET display_total_val ==
        IF display_total # NotGiven THEN display_total
        ELSE IF p.display_total = 0 THEN total
        ELSE p.display_total
      calculated_display_current ==
        Min2(display_total_val, (current * display_total_val) \div total)
  IN [p EXCEPT !.start_time = "set",
               !.status = "converting",
               !.display_total = display_total_val,
               !.display_current =
                  IF display_total_val > 0 /\ total > 0
                    THEN Max2(@, calculated_display_current)
                    ELSE 0,
               !.files = UpdateFiles(@, current_file, current)]

\* one access of upload_file to conversion_progress, each inside
\* `with conversion_progress_lock` (directly or in the helper it calls)
Op(op, current, total, status, current_file) ==
  [op |-> op, current |-> current, total |-> total, status |-> status,
   current_file |-> current_file]

\* the names of the uploaded files of a batch: all different, or all the same
FileNames == <<"a.xlsx", "b.xlsx", "c.xlsx", "d.xlsx">>
FileName(kind, i) == IF kind = "batch_same" THEN FileNames[1] ELSE FileNames[i]

\* the loop that saves the files of a batch: file number files_saved is the
\* one at index files_saved - 1, and
\* int(total_files * ((i + 1) / total_files * 0.2)) is the floor of a fifth
\* of files_saved
RECURSIVE FileOps(_, _, _)
FileOps(kind, total_files, files_saved) ==
  IF files_saved > total_files THEN <<>>
  ELSE << Op("update", (files_saved * 2) \div 10, total_files, "",
             FileName(kind, files_saved)) >>
       \o FileOps(kind, total_files, files_saved + 1)

\* the row loop: update_progress with 30% of the steps spread over the rows,
\* int(total_steps * (rows_processed / total_rows * 0.3)), then the block
\* that raises display_current to rows_processed
RECURSIVE RowOps(_, _)
RowOps(total_rows, rows_processed) ==
  IF rows_processed > total_rows THEN <<>>
  ELSE << Op("update", (2 * total_rows * rows_processed * 3) \div (total_rows * 10),
             2 * total_rows, "", None),
          Op("raise", rows_processed, 2 * total_rows, "", None) >>
       \o RowOps(total_rows, rows_processed + 1)

\* the accesses of a request after its reset, in program order; a call of
\* update_progress or set_progress_status that repeats the arguments of the
\* access before it is left out, and so are the calls of the thread that
\* watches the output directory.  excel: one sheet, converted; failed: the
\* handler of an exception of the conversion; batch and batch_same: several
\* files, none of which is a document after the check of the extensions, so
\* that the request ends at the check of docx_files; invalid: a return
\* before any access
Script(kind, n) ==
  IF kind = "excel"
    THEN << Op("setup", 0, 2 * n, "", None), Op("update", 0, 2 * n, "", None) >>
         \o RowOps(n, 1)
         \o << Op("update", n, 2 * n, "", None),
               Op("update", 2 * n, 2 * n, "", None),
               Op("status", 0, 0, "completed", None) >>
  ELSE IF kind \in {"batch", "batch_same"}
    THEN << Op("display_total", 0, n, "", None),
            Op("update", 0, n, "", None) >>
         \o FileOps(kind, n, 1)
         \o << Op("update", (n * 2) \div 10, n, "", None),
                Op("status", 0, 0, "error", None),
                Op("read", 0, 0, "", None) >>
  ELSE IF kind = "failed"
    THEN << Op("status", 0, 0, "error", None), Op("read", 0, 0, "", None) >>
  ELSE <<>>

\* the status code of the response
StatusCode(kind) ==
  IF kind = "excel" THEN 200 ELSE IF kind = "failed" THEN 500 ELSE 400

\* what an access leaves in conversion_progress
Effect(p, r, n, o) ==
  IF o.op = "reset" THEN ResetForConversion(r)
  ELSE IF o.op = "setup" THEN SetExcelProgress(p, r, n)
  ELSE IF o.op = "display_total" THEN [p EXCEPT !.display_total = n]
  ELSE IF o.op = "update"
    THEN UpdateProgressDict(p, o.current, o.total, n, o.current_file)
  ELSE IF o.op = "raise" THEN [p EXCEPT !.display_current = Max2(@, o.current)]
  ELSE IF o.op = "status"
    THEN SetProgressStatus(p, o.status, IF o.status = "error" THEN ErrorMessage ELSE None)
  ELSE p

NewRequest ==
  [pc |-> "new", kind |-> "none", n |-> 0, step |-> 0, in_with |-> FALSE,
   semaphore_acquired |-> FALSE, response |-> 0]

\* the access the request is at
CurrentOp(r) ==
  IF request[r].pc = "reset" THEN Op("reset", 0, 0, "", None)
  ELSE Script(request[r].kind, request[r].n)[request[r].step]

AtAccess(r) ==
  \/ request[r].pc = "reset"
  \/ /\ request[r].pc = "body"
     /\ request[r].step <= Len(Script(request[r].kind, request[r].n))

upload_frame == <<pc, replace_vars, fill_vars, pool_vars, sanitize_vars, manager_vars>>

InitUpload ==
  /\ pc = "upload"
  /\ semaphore = MAX_CONCURRENT_CONVERSIONS
  /\ acquisition_time = {}
  /\ progress_lock = Unlocked
  /\ progress = ModuleProgress
  /\ request = [r \in Requests |-> NewRequest]
  /\ poller = IdlePoller
  /\ NoReplace /\ NoFill /\ NoPool /\ NoSanitize /\ NoManager

\* an acquire that does not look at the permits
AcquireAlways(r) ==
  /\ request[r].pc = "new"
  /\ \A q \in 1..(r - 1) : request[q].pc # "new"
  /\ semaphore' = semaphore
  /\ request' = [request EXCEPT ![r].pc = "track", ![r].semaphore_acquired = TRUE]
  /\ UNCHANGED <<acquisition_time, progress_lock, progress, poller>>
  /\ UNCHANGED upload_frame

\* conversion_semaphore.acquire(blocking=False), and the 503 when it fails
Acquire(r) ==
  /\ request[r].pc = "new"
  /\ \A q \in 1..(r - 1) : request[q].pc # "new"
  /\ IF semaphore > 0
       THEN /\ semaphore' = semaphore - 1
            /\ request' = [request EXCEPT ![r].pc = "track",
                                          ![r].semaphore_acquired = TRUE]
       ELSE /\ semaphore' = semaphore
            /\ request' = [request EXCEPT ![r].pc = "done", ![r].response = 503]
  /\ UNCHANGED <<acquisition_time, progress_lock, progress, poller>>
  /\ UNCHANGED upload_frame

\* _semaphore_acquisition_time[request_id] = time.time()
Track(r) ==
  /\ request[r].pc = "track"
  /\ acquisition_time' = acquisition_time \cup {r}
  /\ request' = [request EXCEPT ![r].pc = "reset"]
  /\ UNCHANGED <<semaphore, progress_lock, progress, poller>>
  /\ UNCHANGED upload_frame

\* a statement between the acquisition and the end of the first try raises:
\* the handler of that try answers 500
TrackRaises(r) ==
  /\ request[r].pc = "track"
  /\ request' = [request EXCEPT ![r].pc = "done", ![r].response = 500]
  /\ UNCHANGED <<semaphore, acquisition_time, progress_lock, progress, poller>>
  /\ UNCHANGED upload_frame

\* with conversion_progress_lock: the lock is taken
Enter(r) ==
  /\ AtAccess(r)
  /\ ~request[r].in_with
  /\ progress_lock = Unlocked
  /\ progress_lock' = r
  /\ request' = [request EXCEPT ![r].in_with = TRUE]
  /\ UNCHANGED <<semaphore, acquisition_time, progress, poller>>
  /\ UNCHANGED upload_frame

\* the body of the with statement, and the release of the lock at its end
Leave(r) ==
  /\ request[r].in_with
  /\ progress' = Effect(progress, r, request[r].n, CurrentOp(r))
  /\ progress_lock' = Unlocked
  /\ request' = [request EXCEPT
                   ![r].in_with = FALSE,
                   ![r].pc = IF @ = "reset" THEN "validate" ELSE @,
                   ![r].step = IF request[r].pc = "reset" THEN @ ELSE @ + 1]
  /\ UNCHANGED <<semaphore, acquisition_time, poller>>
  /\ UNCHANGED upload_frame

\* the checks of the uploaded files: a return with 400, one sheet, or a batch
Classify(r) ==
  /\ request[r].pc = "validate"
  /\ \E kind \in {"invalid", "excel", "batch", "batch_same"}, n \in 1..MaxTotalRows :
       /\ kind = "invalid" => n = 1
       /\ kind \in {"batch", "batch_same"} => n >= 2
       /\ request' = [request EXCEPT ![r].pc = "body", ![r].kind = kind,
                                     ![r].n = n, ![r].step = 1]
  /\ UNCHANGED <<semaphore, acquisition_time, progress_lock, progress, poller>>
  /\ UNCHANGED upload_frame

\* the conversion of the sheet raises while the rows are generated (the
\* result of a worker is an exception, which the loop raises again)
ExcelRaises(r) ==
  /\ request[r].pc = "body"
  /\ request[r].kind = "excel"
  /\ ~request[r].in_with
  /\ request[r].step <= Len(Script("excel", request[r].n))
  /\ CurrentOp(r).op = "raise"
  /\ request' = [request EXCEPT ![r].kind = "failed", ![r].step = 1]
  /\ UNCHANGED <<semaphore, acquisition_time, progress_lock, progress, poller>>
  /\ UNCHANGED upload_frame

\* return, and the finally clause: the permit is released and the tracking
\* entry removed
Return(r) ==
  /\ request[r].pc = "body"
  /\ request[r].step > Len(Script(request[r].kind, request[r].n))
  /\ semaphore' = IF request[r].semaphore_acquired THEN semaphore + 1 ELSE semaphore
  /\ acquisition_time' = acquisition_time \ {r}
  /\ request' = [request EXCEPT ![r].pc = "done",
                                ![r].response = StatusCode(request[r].kind),
                                ![r].kind = "none", ![r].n = 0, ![r].step = 0,
                                ![r].semaphore_acquired = FALSE]
  /\ UNCHANGED <<progress_lock, progress, poller>>
  /\ UNCHANGED upload_frame

\* get_progress: the lock is taken
GetProgressEnter ==
  /\ poller.pc = "idle"
  /\ progress_lock = Unlocked
  /\ progress_lock' = Poller
  /\ poller' = [poller EXCEPT !.pc = "copying"]
  /\ UNCHANGED <<semaphore, acquisition_time, progress, request>>
  /\ UNCHANGED upload_frame

\* get_progress: conversion_progress.copy() and the copy of the list of
\* files, which holds the entries of the list themselves; the lock is
\* released
GetProgressLeave ==
  /\ poller.pc = "copying"
  /\ progress_lock' = Unlocked
  /\ poller' = [pc |-> "serializing", list |-> progress.files_list,
                 n |-> Len(progress.files)]
  /\ UNCHANGED <<semaphore, acquisition_time, progress, request>>
  /\ UNCHANGED upload_frame

\* get_progress: jsonify(progress_copy) reads the copy and the entries
GetProgressJsonify ==
  /\ poller.pc = "serializing"
  /\ poller' = IdlePoller
  /\ UNCHANGED <<semaphore, acquisition_time, progress_lock, progress, request>>
  /\ UNCHANGED upload_frame

NextUpload ==
  \/ \E r \in Requests :
       \/ Acquire(r)
       \/ Track(r)
       \/ TrackRaises(r)
       \/ Enter(r)
       \/ Leave(r)
       \/ Classify(r)
       \/ ExcelRaises(r)
       \/ Return(r)
  \/ GetProgressEnter
  \/ GetProgressLeave
  \/ GetProgressJsonify

SpecUpload == InitUpload /\ [][NextUpload]_vars


\* the positions of a request that holds a permit and runs a conversion
ConvertingPcs == {"track", "reset", "validate", "body"}

\* the positions between the reset at the start of a conversion and its end
InConversionPcs == {"validate", "body"}

\* C24: the requests past the acquisition of the semaphore and running a
\* conversion are never more than MAX_CONCURRENT_CONVERSIONS; a request that
\* arrives when that many are running is answered 503 in its first step,
\* waits for no lock, and leaves conversion_progress as it is.
C24_AtMostMaxConverting ==
  [][/\ Cardinality({r \in Requests : request'[r].pc \in ConvertingPcs})
          <= MAX_CONCURRENT_CONVERSIONS
     /\ \A r \in Requests :
          ( /\ request[r].pc = "new"
            /\ request'[r].pc # "new"
            /\ Cardinality({q \in Requests : request[q].pc \in ConvertingPcs})
                 >= MAX_CONCURRENT_CONVERSIONS )
          => /\ request'[r].pc = "done"
             /\ request'[r].response = 503
             /\ progress' = progress
             /\ progress_lock' = progress_lock]_vars

C24_Witness ==
  /\ pc = "upload"
  /\ request[1].pc = "body"
  /\ request[2].pc = "body"
  /\ request[3].pc = "done"
  /\ request[3].response = 503
  /\ progress_lock = 1
  /\ progress.display_current = 1

\* C25: a request that acquired the semaphore releases it once on every way
\* out, so that with no request in progress all permits are back and no
\* tracking entry is left.
C25_PermitsReturn ==
  /\ semaphore <= MAX_CONCURRENT_CONVERSIONS
  /\ (pc = "upload" /\ \A r \in Requests : request[r].pc \in {"new", "done"}) =>
       /\ semaphore = MAX_CONCURRENT_CONVERSIONS
       /\ acquisition_time = {}

\* C26: while a conversion runs, from its reset to its end, display_current
\* never decreases, whatever the other requests and threads do meanwhile.
C26_DisplayCurrentMonotone ==
  [][\A r \in Requests :
       (request[r].pc \in InConversionPcs /\ request'[r].pc \in InConversionPcs)
       => progress'.display_current >= progress.display_current]_vars

\* the entries that the /progress request serialises are still entries of
\* conversion_progress['files']
SerializesLiveEntries ==
  /\ poller.pc = "serializing"
  /\ poller.n > 0
  /\ poller.list = progress.files_list

\* C27: conversion_progress is read and written under the lock only: a step
\* that changes it, every step that ends an access of upload_file,
\* update_progress, set_progress_status or get_progress, and the step of
\* get_progress that reads entries of its list of files, is taken by the
\* thread that holds conversion_progress_lock.
C27_AccessUnderLock ==
  [][/\ progress' # progress =>
          \E r \in Requests : progress_lock = r /\ request[r].in_with
                                /\ ~request'[r].in_with
     /\ \A r \in Requests :
          (request[r].in_with /\ ~request'[r].in_with) => progress_lock = r
     /\ (poller.pc = "copying" /\ poller'.pc # "copying") => progress_lock = Poller
     /\ \A r \in Requests : progress_lock' = r => request'[r].in_with
     /\ (SerializesLiveEntries /\ poller'.pc = "idle") => progress_lock = Poller]_vars

====
